---- MODULE Spec2Model ----
(***************************************************************************)
(* unikorn-rs: the precomposed Hangul syllable codec (Syllable <-> char)   *)
(* and the three text transforms built on it: choseong pull-up, jongseong  *)
(* push-down and the horizontal choseong/jongseong flip.                   *)
(*                                                                         *)
(* A char is modelled by its Unicode scalar value, a string by the         *)
(* sequence of its chars.  Option<T> is modelled as a sequence of length   *)
(* at most one: None == <<>> and Some(x) == <<x>>.  A Result, and the      *)
(* outcome of an expression that may panic, is a pair <<tag, value>>.      *)
(***************************************************************************)
EXTENDS Integers, Sequences, FiniteSets, TLC

\* enum Choseong (repr u8)
ChoseongKiyeok == 0
ChoseongSsangKiyeok == 1
ChoseongNieun == 2
ChoseongTikeut == 3
ChoseongSsangTikeut == 4
ChoseongRieul == 5
ChoseongMieum == 6
ChoseongPieup == 7
ChoseongSsangPieup == 8
ChoseongSios == 9
ChoseongSsangSios == 10
ChoseongIeung == 11
ChoseongCieuc == 12
ChoseongSsangCieuc == 13
ChoseongChieuch == 14
ChoseongKhieukh == 15
ChoseongThieuth == 16
ChoseongPhieuph == 17
ChoseongHieuh == 18

\* enum Jongseong (repr u8)
JongseongKiyeok == 1
JongseongSsangKiyeok == 2
JongseongKiyeokSios == 3
JongseongNieun == 4
JongseongNieunCieuc == 5
JongseongNieunHieuh == 6
JongseongTikeut == 7
JongseongRieul == 8
JongseongRieulKiyeok == 9
JongseongRieulMieum == 10
JongseongRieulPieup == 11
JongseongRieulSios == 12
JongseongRieulThieuth == 13
JongseongRieulPhieuph == 14
JongseongRieulHieuh == 15
JongseongMieum == 16
JongseongPieup == 17
JongseongPieupSios == 18
JongseongSios == 19
JongseongSsangSios == 20
JongseongIeung == 21
JongseongCieuc == 22
JongseongChieuch == 23
JongseongKhieukh == 24
JongseongThieuth == 25
JongseongPhieuph == 26
JongseongHieuh == 27

\* enum Jungseong (repr u8)
JungseongA == 0
JungseongAe == 1
JungseongYa == 2
JungseongYae == 3
JungseongEo == 4
JungseongE == 5
JungseongYeo == 6
JungseongYe == 7
JungseongO == 8
JungseongWa == 9
JungseongWae == 10
JungseongOe == 11
JungseongYo == 12
JungseongU == 13
JungseongWeo == 14
JungseongWe == 15
JungseongWi == 16
JungseongYu == 17
JungseongEu == 18
JungseongYi == 19
JungseongI == 20

\* The members of each enum, by discriminant.
Choseong == ChoseongKiyeok..ChoseongHieuh
Jongseong == JongseongKiyeok..JongseongHieuh
Jungseong == JungseongA..JungseongI

\* Option<T>
None == <<>>
Some(x) == <<x>>

\* Jongseong::Empty, the member the rule tables of the transforms use for
\* "no final consonant".  The codec under src/ holds the final as
\* Option<Jongseong>; Empty is the absent final, composed as 0.
Empty == None

\* Result<T, E>, and the third outcome of an expression: a panic.
Ok(v) == <<"Ok", v>>
Err(e) == <<"Err", e>>
Panic == <<"Panic", 0>>
IsOk(r) == r[1] = "Ok"
IsErr(r) == r[1] = "Err"
IsPanic(r) == r[1] = "Panic"
Unwrap(r) == r[2]

\* Error::NonKorean(char)
NonKorean(character) == <<"NonKorean", character>>

-----------------------------------------------------------------------------
(* The syllable codec.                                                      *)

\* U+AC00 and U+D7A3, the ends of the Precomposed Hangul Syllables range;
\* the radices of the positional arithmetic.
SyllableFirst == 44032
SyllableLast == 55203
JungseongCount == 21
JongseongCount == 28

\* The limits of char: a u32 is a char iff it is a Unicode scalar value.
SurrogateFirst == 55296
SurrogateLast == 57343
CharMax == 1114111
U8 == 256

\* char::from_u32
CharFromU32(n) ==
    IF n >= 0 /\ n <= CharMax /\ ~(n >= SurrogateFirst /\ n <= SurrogateLast)
    THEN Some(n)
    ELSE None

\* Faulty variant of ChoseongTryFromU8: the enum is taken to start at 1, as
\* Jongseong does.
OneBased_ChoseongTryFromU8(n) == IF n \in 1..19 THEN Ok(n - 1) ELSE Err(n)

\* Faulty variant of JongseongTryFromU8: the enum is taken to start at 0, as
\* Choseong does, so index 0 is a final.
ZeroBased_JongseongTryFromU8(n) == IF n \in 0..27 THEN Ok(n) ELSE Err(n)

\* The TryFromPrimitive conversions of the three enums (u8 -> member).
ChoseongTryFromU8(n) == IF n \in Choseong THEN Ok(n) ELSE Err(n)
JungseongTryFromU8(n) == IF n \in Jungseong THEN Ok(n) ELSE Err(n)
JongseongTryFromU8(n) == IF n \in Jongseong THEN Ok(n) ELSE Err(n)

\* Result::ok
ResultOk(r) == IF IsOk(r) THEN Some(Unwrap(r)) ELSE None

\* Faulty variants of is_one_of_us: the range one codepoint too long, and the range
\* taken to the end of the Hangul blocks (U+D7FF).
OffByOne_is_one_of_us(character) ==
    character >= SyllableFirst /\ character <= SyllableLast + 1
WholeBlock_is_one_of_us(character) ==
    character >= SyllableFirst /\ character < SurrogateFirst

\* Syllable::is_one_of_us
is_one_of_us(character) ==
    character >= SyllableFirst /\ character <= SyllableLast

\* A Syllable value.
Syllable(choseong, jungseong, jongseong) ==
    [choseong |-> choseong, jungseong |-> jungseong, jongseong |-> jongseong]

\* Faulty variant of CharFromSyllable: the final consonant is left out of the sum.
NoFinal_CharFromSyllable(syllable) ==
    Ok(SyllableFirst
        + (syllable.choseong * JungseongCount * JongseongCount)
        + (syllable.jungseong * JongseongCount))

\* Faulty variant of CharFromSyllable: the radix of the finals is the number
\* of final consonants, 27, without the place of "no final".
Finals27_CharFromSyllable(syllable) ==
    LET n == SyllableFirst
               + (syllable.choseong * JungseongCount * (JongseongCount - 1))
               + (syllable.jungseong * (JongseongCount - 1))
               + (IF syllable.jongseong # None THEN syllable.jongseong[1] ELSE 0)
        c == CharFromU32(n)
    IN  IF c # None THEN Ok(c[1]) ELSE Panic

\* impl From<Syllable> for char: Panic when char::from_u32(..).unwrap() fails.
CharFromSyllable(syllable) ==
    LET n == SyllableFirst
               + (syllable.choseong * JungseongCount * JongseongCount)
               + (syllable.jungseong * JongseongCount)
               + (IF syllable.jongseong # None THEN syllable.jongseong[1] ELSE 0)
        c == CharFromU32(n)
    IN  IF c # None THEN Ok(c[1]) ELSE Panic

\* Faulty variant of SyllableTryFrom: only the lower end of the range is tested, so
\* a char beyond U+D7A3 reaches the arithmetic and the unwrapped conversions.
LowerOnly_SyllableTryFrom(character) ==
    IF character < SyllableFirst
    THEN Err(NonKorean(character))
    ELSE LET u == character - SyllableFirst
             c == ChoseongTryFromU8(
                    (u \div (JungseongCount * JongseongCount)) % U8)
             v == JungseongTryFromU8(
                    ((u \div JongseongCount) % JungseongCount) % U8)
         IN  IF IsOk(c) /\ IsOk(v)
             THEN Ok(Syllable(Unwrap(c), Unwrap(v),
                        ResultOk(JongseongTryFromU8((u % JongseongCount) % U8))))
             ELSE Panic

\* impl TryFrom<char> for Syllable: Err(NonKorean(c)) outside the range, Panic
\* when an unwrap of an enum conversion fails.
SyllableTryFrom(character) ==
    IF ~is_one_of_us(character)
    THEN Err(NonKorean(character))
    ELSE LET unified_syllable0 == character - SyllableFirst
             jongseong == unified_syllable0 % JongseongCount
             unified_syllable1 == unified_syllable0 - jongseong
             jungseong == (unified_syllable1 \div JongseongCount) % JungseongCount
             unified_syllable2 == unified_syllable1 - jungseong * JongseongCount
             choseong == unified_syllable2 \div (JungseongCount * JongseongCount)
             c == ChoseongTryFromU8(choseong % U8)
             v == JungseongTryFromU8(jungseong % U8)
         IN  IF IsOk(c) /\ IsOk(v)
             THEN Ok(Syllable(Unwrap(c), Unwrap(v),
                              ResultOk(JongseongTryFromU8(jongseong % U8))))
             ELSE Panic


-----------------------------------------------------------------------------
(* The consonants: Jaeum, the free-standing letters, and their conversions  *)
(* to and from the positional Choseong and Jongseong.                       *)

\* enum Jaeum, #[repr(u8)]: the 30 consonants in the order of the Hangul
\* Compatibility Jamo block, U+3131 + member.
JaeumKiyeok == 0
JaeumSsangKiyeok == 1
JaeumKiyeokSios == 2
JaeumNieun == 3
JaeumNieunCieuc == 4
JaeumNieunHieuh == 5
JaeumTikeut == 6
JaeumSsangTikeut == 7
JaeumRieul == 8
JaeumRieulKiyeok == 9
JaeumRieulMieum == 10
JaeumRieulPieup == 11
JaeumRieulSios == 12
JaeumRieulThieuth == 13
JaeumRieulPhieuph == 14
JaeumRieulHieuh == 15
JaeumMieum == 16
JaeumPieup == 17
JaeumSsangPieup == 18
JaeumPieupSios == 19
JaeumSios == 20
JaeumSsangSios == 21
JaeumIeung == 22
JaeumCieuc == 23
JaeumSsangCieuc == 24
JaeumChieuch == 25
JaeumKhieukh == 26
JaeumThieuth == 27
JaeumPhieuph == 28
JaeumHieuh == 29

Jaeum == 0..29

\* U+3131 and U+314E, the ends of the consonants of Hangul Compatibility Jamo.
JaeumFirst == 12593
JaeumLast == 12622

\* Error::NonJamo(char), ::NotApplicableToChoseong(Jaeum),
\* ::NotApplicableToJongseong(Jaeum)
NonJamo(character) == <<"NonJamo", character>>
NotApplicableToChoseong(jaeum) == <<"NotApplicableToChoseong", jaeum>>
NotApplicableToJongseong(jaeum) == <<"NotApplicableToJongseong", jaeum>>

\* Jaeum: TryFromPrimitive
JaeumTryFromU8(n) == IF n \in Jaeum THEN Ok(n) ELSE Err(n)

\* impl TryFrom<char> for Jaeum: Panic when the unwrap fails.
JaeumTryFromChar(character) ==
    IF ~(character >= JaeumFirst /\ character <= JaeumLast)
    THEN Err(NonJamo(character))
    ELSE LET r == JaeumTryFromU8((character - JaeumFirst) % U8)
         IN  IF IsOk(r) THEN Ok(Unwrap(r)) ELSE Panic

\* impl TryFrom<Jaeum> for Choseong
ChoseongTryFromJaeum(jaeum) ==
    CASE jaeum = JaeumKiyeok -> Ok(ChoseongKiyeok)
      [] jaeum = JaeumSsangKiyeok -> Ok(ChoseongSsangKiyeok)
      [] jaeum = JaeumNieun -> Ok(ChoseongNieun)
      [] jaeum = JaeumTikeut -> Ok(ChoseongTikeut)
      [] jaeum = JaeumSsangTikeut -> Ok(ChoseongSsangTikeut)
      [] jaeum = JaeumRieul -> Ok(ChoseongRieul)
      [] jaeum = JaeumMieum -> Ok(ChoseongMieum)
      [] jaeum = JaeumPieup -> Ok(ChoseongPieup)
      [] jaeum = JaeumSsangPieup -> Ok(ChoseongSsangPieup)
      [] jaeum = JaeumSios -> Ok(ChoseongSios)
      [] jaeum = JaeumSsangSios -> Ok(ChoseongSsangSios)
      [] jaeum = JaeumIeung -> Ok(ChoseongIeung)
      [] jaeum = JaeumCieuc -> Ok(ChoseongCieuc)
      [] jaeum = JaeumSsangCieuc -> Ok(ChoseongSsangCieuc)
      [] jaeum = JaeumChieuch -> Ok(ChoseongChieuch)
      [] jaeum = JaeumKhieukh -> Ok(ChoseongKhieukh)
      [] jaeum = JaeumThieuth -> Ok(ChoseongThieuth)
      [] jaeum = JaeumPhieuph -> Ok(ChoseongPhieuph)
      [] jaeum = JaeumHieuh -> Ok(ChoseongHieuh)
      [] OTHER -> Err(NotApplicableToChoseong(jaeum))

\* impl TryFrom<char> for Choseong: `Self::try_from(Jaeum::try_from(c)?)`
ChoseongTryFromChar(character) ==
    LET j == JaeumTryFromChar(character)
    IN  IF ~IsOk(j) THEN j ELSE ChoseongTryFromJaeum(Unwrap(j))

\* impl TryFrom<Jaeum> for Jongseong
JongseongTryFromJaeum(jaeum) ==
    CASE jaeum = JaeumKiyeok -> Ok(JongseongKiyeok)
      [] jaeum = JaeumSsangKiyeok -> Ok(JongseongSsangKiyeok)
      [] jaeum = JaeumKiyeokSios -> Ok(JongseongKiyeokSios)
      [] jaeum = JaeumNieun -> Ok(JongseongNieun)
      [] jaeum = JaeumNieunCieuc -> Ok(JongseongNieunCieuc)
      [] jaeum = JaeumNieunHieuh -> Ok(JongseongNieunHieuh)
      [] jaeum = JaeumTikeut -> Ok(JongseongTikeut)
      [] jaeum = JaeumRieul -> Ok(JongseongRieul)
      [] jaeum = JaeumRieulKiyeok -> Ok(JongseongRieulKiyeok)
      [] jaeum = JaeumRieulMieum -> Ok(JongseongRieulMieum)
      [] jaeum = JaeumRieulPieup -> Ok(JongseongRieulPieup)
      [] jaeum = JaeumRieulSios -> Ok(JongseongRieulSios)
      [] jaeum = JaeumRieulThieuth -> Ok(JongseongRieulThieuth)
      [] jaeum = JaeumRieulPhieuph -> Ok(JongseongRieulPhieuph)
      [] jaeum = JaeumRieulHieuh -> Ok(JongseongRieulHieuh)
      [] jaeum = JaeumMieum -> Ok(JongseongMieum)
      [] jaeum = JaeumPieup -> Ok(JongseongPieup)
      [] jaeum = JaeumPieupSios -> Ok(JongseongPieupSios)
      [] jaeum = JaeumSios -> Ok(JongseongSios)
      [] jaeum = JaeumSsangSios -> Ok(JongseongSsangSios)
      [] jaeum = JaeumIeung -> Ok(JongseongIeung)
      [] jaeum = JaeumCieuc -> Ok(JongseongCieuc)
      [] jaeum = JaeumChieuch -> Ok(JongseongChieuch)
      [] jaeum = JaeumKhieukh -> Ok(JongseongKhieukh)
      [] jaeum = JaeumThieuth -> Ok(JongseongThieuth)
      [] jaeum = JaeumPhieuph -> Ok(JongseongPhieuph)
      [] jaeum = JaeumHieuh -> Ok(JongseongHieuh)
      [] OTHER -> Err(NotApplicableToJongseong(jaeum))

\* Faulty variant of JaeumFromJongseong: the finals are taken to be in the
\* order of the Jaeum, one off.
Offset_JaeumFromJongseong(jongseong) == jongseong - 1

\* impl From<Jongseong> for Jaeum
JaeumFromJongseong(jongseong) ==
    CASE jongseong = JongseongKiyeok -> JaeumKiyeok
      [] jongseong = JongseongSsangKiyeok -> JaeumSsangKiyeok
      [] jongseong = JongseongKiyeokSios -> JaeumKiyeokSios
      [] jongseong = JongseongNieun -> JaeumNieun
      [] jongseong = JongseongNieunCieuc -> JaeumNieunCieuc
      [] jongseong = JongseongNieunHieuh -> JaeumNieunHieuh
      [] jongseong = JongseongTikeut -> JaeumTikeut
      [] jongseong = JongseongRieul -> JaeumRieul
      [] jongseong = JongseongRieulKiyeok -> JaeumRieulKiyeok
      [] jongseong = JongseongRieulMieum -> JaeumRieulMieum
      [] jongseong = JongseongRieulPieup -> JaeumRieulPieup
      [] jongseong = JongseongRieulSios -> JaeumRieulSios
      [] jongseong = JongseongRieulThieuth -> JaeumRieulThieuth
      [] jongseong = JongseongRieulPhieuph -> JaeumRieulPhieuph
      [] jongseong = JongseongRieulHieuh -> JaeumRieulHieuh
      [] jongseong = JongseongMieum -> JaeumMieum
      [] jongseong = JongseongPieup -> JaeumPieup
      [] jongseong = JongseongPieupSios -> JaeumPieupSios
      [] jongseong = JongseongSios -> JaeumSios
      [] jongseong = JongseongSsangSios -> JaeumSsangSios
      [] jongseong = JongseongIeung -> JaeumIeung
      [] jongseong = JongseongCieuc -> JaeumCieuc
      [] jongseong = JongseongChieuch -> JaeumChieuch
      [] jongseong = JongseongKhieukh -> JaeumKhieukh
      [] jongseong = JongseongThieuth -> JaeumThieuth
      [] jongseong = JongseongPhieuph -> JaeumPhieuph
      [] jongseong = JongseongHieuh -> JaeumHieuh

-----------------------------------------------------------------------------
(* Strings.  A &str is read through chars(), so the input is modelled as    *)
(* the sequence of its chars; a String is built by pushing the UTF-8        *)
(* encoding of one char at a time, so the output is modelled as its bytes.  *)

\* char::encode_utf8
EncodeUtf8(c) ==
    IF c < 128 THEN <<c>>
    ELSE IF c < 2048 THEN <<192 + (c \div 64), 128 + (c % 64)>>
    ELSE IF c < 65536
    THEN <<224 + (c \div 4096), 128 + ((c \div 64) % 64), 128 + (c % 64)>>
    ELSE <<240 + (c \div 262144), 128 + ((c \div 4096) % 64),
           128 + ((c \div 64) % 64), 128 + (c % 64)>>

\* String::push_str(c.encode_utf8(..)) and String::push(c)
Push(string, c) == string \o EncodeUtf8(c)

\* destination.push_str(char::from(syllable).encode_utf8(..)): Panic when the
\* conversion to char panics.
PushSyllable(string, syllable) ==
    LET c == CharFromSyllable(syllable)
    IN  IF IsPanic(c) THEN Panic ELSE Ok(Push(string, Unwrap(c)))

\* str::chars, collected: the chars a (valid UTF-8) byte string holds.
RECURSIVE Chars(_)
Chars(bytes) ==
    IF bytes = <<>> THEN <<>>
    ELSE LET b == bytes[1]
             n == IF b < 128 THEN 1 ELSE IF b < 224 THEN 2
                  ELSE IF b < 240 THEN 3 ELSE 4
             c == IF n = 1 THEN b
                  ELSE IF n = 2 THEN (b - 192) * 64 + (bytes[2] - 128)
                  ELSE IF n = 3
                  THEN (b - 224) * 4096 + (bytes[2] - 128) * 64 + (bytes[3] - 128)
                  ELSE (b - 240) * 262144 + (bytes[2] - 128) * 4096
                       + (bytes[3] - 128) * 64 + (bytes[4] - 128)
         IN  <<c>> \o Chars(SubSeq(bytes, n + 1, Len(bytes)))


-----------------------------------------------------------------------------
(* choseong-pullup.                                                         *)
(* A rule is (jongseong_a, choseong_b, jongseong_c, extended).              *)

\* Faulty variant of PullupRULESET: two rules share a trigger and one is
\* triggered by the initial Ieung.
Ambiguous_PullupRULESET == <<
    <<Empty, ChoseongKiyeok, Some(JongseongKiyeok), FALSE>>,
    <<Empty, ChoseongKiyeok, Some(JongseongSsangKiyeok), FALSE>>,
    <<Empty, ChoseongIeung, Some(JongseongIeung), FALSE>>
>>

PullupRULESET == <<
    <<Empty, ChoseongKiyeok, Some(JongseongKiyeok), FALSE>>,
    <<Empty, ChoseongSsangKiyeok, Some(JongseongSsangKiyeok), FALSE>>,
    <<Empty, ChoseongNieun, Some(JongseongNieun), FALSE>>,
    <<Empty, ChoseongTikeut, Some(JongseongTikeut), FALSE>>,
    <<Empty, ChoseongRieul, Some(JongseongRieul), FALSE>>,
    <<Empty, ChoseongMieum, Some(JongseongMieum), FALSE>>,
    <<Empty, ChoseongPieup, Some(JongseongPieup), FALSE>>,
    <<Empty, ChoseongSios, Some(JongseongSios), FALSE>>,
    <<Empty, ChoseongSsangSios, Some(JongseongSsangSios), FALSE>>,
    <<Empty, ChoseongCieuc, Some(JongseongCieuc), FALSE>>,
    <<Empty, ChoseongChieuch, Some(JongseongChieuch), FALSE>>,
    <<Empty, ChoseongKhieukh, Some(JongseongKhieukh), FALSE>>,
    <<Empty, ChoseongThieuth, Some(JongseongThieuth), FALSE>>,
    <<Empty, ChoseongPhieuph, Some(JongseongPhieuph), FALSE>>,
    <<Empty, ChoseongHieuh, Some(JongseongHieuh), TRUE>>,
    <<Some(JongseongKiyeok), ChoseongKiyeok, Some(JongseongSsangKiyeok), TRUE>>,
    <<Some(JongseongKiyeok), ChoseongSios, Some(JongseongKiyeokSios), FALSE>>,
    <<Some(JongseongNieun), ChoseongCieuc, Some(JongseongNieunCieuc), FALSE>>,
    <<Some(JongseongNieun), ChoseongHieuh, Some(JongseongNieunHieuh), TRUE>>,
    <<Some(JongseongRieul), ChoseongKiyeok, Some(JongseongRieulKiyeok), FALSE>>,
    <<Some(JongseongRieul), ChoseongMieum, Some(JongseongRieulMieum), FALSE>>,
    <<Some(JongseongRieul), ChoseongPieup, Some(JongseongRieulPieup), FALSE>>,
    <<Some(JongseongRieul), ChoseongSios, Some(JongseongRieulSios), FALSE>>,
    <<Some(JongseongRieul), ChoseongThieuth, Some(JongseongRieulThieuth), FALSE>>,
    <<Some(JongseongRieul), ChoseongPhieuph, Some(JongseongRieulPhieuph), FALSE>>,
    <<Some(JongseongRieul), ChoseongHieuh, Some(JongseongRieulHieuh), TRUE>>,
    <<Some(JongseongPieup), ChoseongSios, Some(JongseongPieupSios), FALSE>>,
    <<Some(JongseongSios), ChoseongSios, Some(JongseongSsangSios), TRUE>>
>>

\* The least element of a non-empty set of integers.
Least(S) == CHOOSE i \in S : \A j \in S : i <= j

\* Faulty variant of PullupRuleMatches: the rule's extended flag is not consulted.
AnyMode_PullupRuleMatches(rule, current_syllable, next_syllable, extended_rulset) ==
    /\ rule[1] = current_syllable.jongseong
    /\ rule[2] = next_syllable.choseong

\* The condition of the for loop's if: `extended <= extended_rulset` on bools
\* is `extended => extended_rulset`.
PullupRuleMatches(rule, current_syllable, next_syllable, extended_rulset) ==
    /\ rule[1] = current_syllable.jongseong
    /\ rule[2] = next_syllable.choseong
    /\ (rule[4] => extended_rulset)

\* The for loop with its break: the index of the first rule that matches,
\* 0 when none does.
PullupFirstMatch(current_syllable, next_syllable, extended_rulset) ==
    LET hits == {i \in 1..Len(PullupRULESET) :
                    PullupRuleMatches(PullupRULESET[i], current_syllable,
                                      next_syllable, extended_rulset)}
    IN  IF hits = {} THEN 0 ELSE Least(hits)

\* Faulty variant of PullupTakePending: the flag is not looked at before the
\* rule lookup of the syllable.
Deferred_PullupTakePending(current_syllable, pulled) ==
    [syllable |-> current_syllable, pulled |-> pulled]

\* Faulty variant of PullupTakePending: the initial is overwritten but the
\* flag is not cleared.
NoClear_PullupTakePending(current_syllable, pulled) ==
    IF pulled
    THEN [syllable |-> [current_syllable EXCEPT !.choseong = ChoseongIeung],
          pulled |-> pulled]
    ELSE [syllable |-> current_syllable, pulled |-> pulled]

\* Faulty variant of PullupTakePending: the flag is cleared but the initial is not
\* overwritten.
NoOverwrite_PullupTakePending(current_syllable, pulled) ==
    [syllable |-> current_syllable, pulled |-> FALSE]

\* `if choseong_pulled { current_syllable.choseong = Choseong::Ieung;
\* choseong_pulled = false; }`: the syllable and the flag after it.
PullupTakePending(current_syllable, pulled) ==
    IF pulled
    THEN [syllable |-> [current_syllable EXCEPT !.choseong = ChoseongIeung],
          pulled |-> FALSE]
    ELSE [syllable |-> current_syllable, pulled |-> pulled]

\* Faulty variant of PullupEarlyContinue: the `continue` is taken without the push.
NoPush_PullupEarlyContinue(dest, current_syllable, next, pulled) ==
    [destination |-> Ok(dest), pulled |-> pulled]

\* `if !Syllable::is_one_of_us(next) { destination.push_str(..); continue; }`:
\* the current syllable is pushed, the flag is left as it is.
PullupEarlyContinue(dest, current_syllable, next, pulled) ==
    [destination |-> PushSyllable(dest, current_syllable), pulled |-> pulled]

\* The body of `while let Some(current) = characters.next()`, with `peek`
\* the Option<char> of characters.peek(): the String after the iteration
\* (Panic when an unwrap fails) and choseong_pulled after it.
PullupBody(dest, current, peek, pulled, extended_rulset) ==
    IF ~is_one_of_us(current)
    THEN [destination |-> Ok(Push(dest, current)), pulled |-> pulled]
    ELSE
    LET r == SyllableTryFrom(current)
    IN  IF ~IsOk(r) THEN [destination |-> Panic, pulled |-> pulled]
        ELSE
        LET taken == PullupTakePending(Unwrap(r), pulled)
            current_syllable == taken.syllable
        IN  IF peek = None
            THEN [destination |-> PushSyllable(dest, current_syllable),
                  pulled |-> taken.pulled]
            ELSE IF ~is_one_of_us(peek[1])
            THEN PullupEarlyContinue(dest, current_syllable, peek[1],
                                     taken.pulled)
            ELSE
            LET n == SyllableTryFrom(peek[1])
            IN  IF ~IsOk(n)
                THEN [destination |-> Panic, pulled |-> taken.pulled]
                ELSE
                LET k == PullupFirstMatch(current_syllable, Unwrap(n),
                                          extended_rulset)
                    rewritten ==
                        IF k = 0 THEN current_syllable
                        ELSE [current_syllable EXCEPT
                                !.jongseong = PullupRULESET[k][3]]
                IN  [destination |-> PushSyllable(dest, rewritten),
                     pulled |-> IF k # 0 THEN TRUE ELSE taken.pulled]

-----------------------------------------------------------------------------
(* jongseong-pushdown.                                                      *)
(* A rule is (jongseong_a, jongseong_b, choseong_c, extended).              *)

PushdownRULESET == <<
    <<Some(JongseongKiyeok), Empty, ChoseongKiyeok, FALSE>>,
    <<Some(JongseongSsangKiyeok), Empty, ChoseongSsangKiyeok, FALSE>>,
    <<Some(JongseongKiyeokSios), Some(JongseongKiyeok), ChoseongSios, FALSE>>,
    <<Some(JongseongNieun), Empty, ChoseongNieun, FALSE>>,
    <<Some(JongseongNieunCieuc), Some(JongseongNieun), ChoseongCieuc, FALSE>>,
    <<Some(JongseongNieunHieuh), Some(JongseongNieun), ChoseongHieuh, TRUE>>,
    <<Some(JongseongTikeut), Empty, ChoseongTikeut, FALSE>>,
    <<Some(JongseongRieul), Empty, ChoseongRieul, FALSE>>,
    <<Some(JongseongRieulKiyeok), Some(JongseongRieul), ChoseongKiyeok, FALSE>>,
    <<Some(JongseongRieulMieum), Some(JongseongRieul), ChoseongMieum, FALSE>>,
    <<Some(JongseongRieulPieup), Some(JongseongRieul), ChoseongPieup, FALSE>>,
    <<Some(JongseongRieulSios), Some(JongseongRieul), ChoseongSios, FALSE>>,
    <<Some(JongseongRieulThieuth), Some(JongseongRieul), ChoseongThieuth, FALSE>>,
    <<Some(JongseongRieulPhieuph), Some(JongseongRieul), ChoseongPhieuph, FALSE>>,
    <<Some(JongseongRieulHieuh), Some(JongseongRieul), ChoseongHieuh, TRUE>>,
    <<Some(JongseongMieum), Empty, ChoseongMieum, FALSE>>,
    <<Some(JongseongPieup), Empty, ChoseongPieup, FALSE>>,
    <<Some(JongseongPieupSios), Some(JongseongPieup), ChoseongSios, FALSE>>,
    <<Some(JongseongSios), Empty, ChoseongSios, FALSE>>,
    <<Some(JongseongSsangSios), Empty, ChoseongSsangSios, FALSE>>,
    <<Some(JongseongCieuc), Empty, ChoseongCieuc, FALSE>>,
    <<Some(JongseongChieuch), Empty, ChoseongChieuch, FALSE>>,
    <<Some(JongseongKhieukh), Empty, ChoseongKhieukh, FALSE>>,
    <<Some(JongseongThieuth), Empty, ChoseongThieuth, FALSE>>,
    <<Some(JongseongPhieuph), Empty, ChoseongPhieuph, FALSE>>,
    <<Some(JongseongHieuh), Empty, ChoseongHieuh, TRUE>>
>>

\* Faulty variant of PushdownGuard: Thieuth is missing from the guarded finals.
TikeutOnly_PushdownGuard(current_syllable, next_syllable, extended_flag) ==
    \/ ~(/\ current_syllable.jongseong \in {Some(JongseongTikeut)}
         /\ next_syllable.jungseong
              \in {JungseongYa, JungseongYae, JungseongYeo, JungseongYe,
                   JungseongYo, JungseongYu, JungseongI})
    \/ extended_flag

\* The "additional extended ruleset check": the rule table is consulted unless
\* the final is Tikeut or Thieuth and the next vowel is one of the seven, or
\* the extended flag is set.
PushdownGuard(current_syllable, next_syllable, extended_flag) ==
    \/ ~(/\ current_syllable.jongseong
              \in {Some(JongseongTikeut), Some(JongseongThieuth)}
         /\ next_syllable.jungseong
              \in {JungseongYa, JungseongYae, JungseongYeo, JungseongYe,
                   JungseongYo, JungseongYu, JungseongI})
    \/ extended_flag

\* Faulty variant of PushdownRuleMatches: the next initial is not required to be
\* Ieung.
AnyInitial_PushdownRuleMatches(rule, current_syllable, next_syllable, extended_flag) ==
    /\ rule[1] = current_syllable.jongseong
    /\ (rule[4] => extended_flag)

\* Faulty variant of PushdownRuleMatches: the operands of `<=` are swapped.
Reversed_PushdownRuleMatches(rule, current_syllable, next_syllable, extended_flag) ==
    /\ rule[1] = current_syllable.jongseong
    /\ ChoseongIeung = next_syllable.choseong
    /\ (extended_flag => rule[4])

PushdownRuleMatches(rule, current_syllable, next_syllable, extended_flag) ==
    /\ rule[1] = current_syllable.jongseong
    /\ ChoseongIeung = next_syllable.choseong
    /\ (rule[4] => extended_flag)

PushdownFirstMatch(current_syllable, next_syllable, extended_flag) ==
    LET hits == {i \in 1..Len(PushdownRULESET) :
                    PushdownRuleMatches(PushdownRULESET[i], current_syllable,
                                        next_syllable, extended_flag)}
    IN  IF hits = {} THEN 0 ELSE Least(hits)

\* Faulty variant of PushdownTakePending: the pending initial is taken but
\* not written to the syllable.
NoOverwrite_PushdownTakePending(current_syllable, pending) ==
    [syllable |-> current_syllable, pending |-> None]

\* `if new_choseong.is_some() { .. = new_choseong.take().unwrap(); }`: the
\* syllable and new_choseong after it.
PushdownTakePending(current_syllable, pending) ==
    IF pending # None
    THEN [syllable |-> [current_syllable EXCEPT !.choseong = pending[1]],
          pending |-> None]
    ELSE [syllable |-> current_syllable, pending |-> pending]

\* Faulty variant of PushdownEarlyContinue: the peeked char is pushed, not the
\* current syllable.
PushNext_PushdownEarlyContinue(dest, current_syllable, next, pending) ==
    [destination |-> Ok(Push(dest, next)), pending |-> pending]

\* `if !Syllable::is_one_of_us(next) { destination.push_str(..); continue; }`:
\* the current syllable is pushed, the pending initial is left as it is.
PushdownEarlyContinue(dest, current_syllable, next, pending) ==
    [destination |-> PushSyllable(dest, current_syllable), pending |-> pending]

\* The body of `while let Some(current) = characters.next()`: the String
\* after the iteration (Panic when an unwrap fails) and new_choseong after it.
PushdownBody(dest, current, peek, pending, extended_flag) ==
    IF ~is_one_of_us(current)
    THEN [destination |-> Ok(Push(dest, current)), pending |-> pending]
    ELSE
    LET r == SyllableTryFrom(current)
    IN  IF ~IsOk(r) THEN [destination |-> Panic, pending |-> pending]
        ELSE
        LET taken == PushdownTakePending(Unwrap(r), pending)
            current_syllable == taken.syllable
        IN  IF peek = None
            THEN [destination |-> PushSyllable(dest, current_syllable),
                  pending |-> taken.pending]
            ELSE IF ~is_one_of_us(peek[1])
            THEN PushdownEarlyContinue(dest, current_syllable, peek[1],
                                       taken.pending)
            ELSE
            LET n == SyllableTryFrom(peek[1])
            IN  IF ~IsOk(n)
                THEN [destination |-> Panic, pending |-> taken.pending]
                ELSE
                LET k == IF PushdownGuard(current_syllable, Unwrap(n),
                                          extended_flag)
                         THEN PushdownFirstMatch(current_syllable, Unwrap(n),
                                                 extended_flag)
                         ELSE 0
                    rewritten ==
                        IF k = 0 THEN current_syllable
                        ELSE [current_syllable EXCEPT
                                !.jongseong = PushdownRULESET[k][2]]
                IN  [destination |-> PushSyllable(dest, rewritten),
                     pending |-> IF k = 0 THEN taken.pending
                                 ELSE Some(PushdownRULESET[k][3])]

-----------------------------------------------------------------------------
(* horizontal-chojongseong-flip.                                            *)

\* Faulty variant of FlippedNext: the .rev() is missing.
Unreversed_FlippedNext(cj, jung, taken) ==
    IF taken < Len(cj) /\ taken < Len(jung)
    THEN Some(<<cj[taken + 1], jung[taken + 1]>>)
    ELSE None

\* `flipped.next()` on chojongseong.into_iter().rev().zip(jungseong.into_iter())
\* after `taken` items were taken: Some(((choseong, jongseong), jungseong)),
\* or None when either side is exhausted.
FlippedNext(cj, jung, taken) ==
    IF taken < Len(cj) /\ taken < Len(jung)
    THEN Some(<<cj[Len(cj) - taken], jung[taken + 1]>>)
    ELSE None

-----------------------------------------------------------------------------
(* The inputs.                                                              *)

\* The longest text of the exhaustive part, and how far beyond either end of
\* the syllable range the codec is tried.
MaxLen == 3
Margin == 8

\* ' ', U+D7A4 (the codepoint after the range), and the syllables
\* 이 불 돋 아 해 윟 안 각.
Alphabet == {32, 55204, 51060, 48520, 46027, 50500, 54644, 50975, 50504, 44033}

RECURSIVE TextsOfLen(_)
TextsOfLen(n) ==
    IF n = 0 THEN {<<>>}
    ELSE {Append(s, c) : s \in TextsOfLen(n - 1), c \in Alphabet}

\* Every text over Alphabet of at most MaxLen chars.
Texts == UNION {TextsOfLen(n) : n \in 0..MaxLen}

\* Every pair of a syllable 가..갛 (each of the 28 finals) and a syllable with
\* any of the 19 initials, no final, and the vowel A, Ya or I.
Pairs ==
    {<<SyllableFirst + f, SyllableFirst + (c * 588) + (v * 28)>> :
        f \in 0..27, c \in 0..18, v \in {0, 2, 20}}

\* The pairs around the palatalization guard: a first syllable with no final
\* or the final Tikeut, Rieul, RieulThieuth or Thieuth, and a second syllable
\* with the initial Tikeut, Ieung or Thieuth, no final and any of the 21 vowels.
GuardPairs ==
    {<<SyllableFirst + f, SyllableFirst + (c * 588) + (v * 28)>> :
        f \in {0, 7, 8, 13, 25}, c \in {3, 11, 16}, v \in 0..20}

\* The chars the codec is called on: the range with a margin on either side,
\* and '\0', '@', 'E', U+ABF9, U+D7B0, the chars around the surrogate gap,
\* U+1D11E and char::MAX.
\* Every value of the struct Syllable.
Syllables ==
    {Syllable(c, v, f) : c \in Choseong, v \in Jungseong,
                         f \in {None} \cup {Some(j) : j \in Jongseong}}

\* The chars Choseong::try_from is tried on: the compatibility consonants and
\* Margin chars on either side, '^', 'v', U+3157, U+3163, U+1100 and U+AC00.
JamoChars ==
    ((JaeumFirst - Margin)..(JaeumLast + Margin))
        \cup {94, 118, 12631, 12643, 4352, 44032}

CodecChars ==
    ((SyllableFirst - Margin)..(SyllableLast + Margin))
    \cup {0, 64, 69, 44025, 55216, 55295, 57344, 119070, 1114111}

-----------------------------------------------------------------------------
(* The state machine: one call of one entry point.                          *)

VARIABLES
    call,             \* the entry point: "pullup", "pushdown", "flip", "codec"
    extended,         \* extended_rulset / extended_flag
    source,           \* the chars of the argument
    characters,       \* the iterator: index of the char next() yields next
    destination,      \* the String being built, as bytes
    choseong_pulled,  \* pull-up's pending flag
    new_choseong,     \* push-down's pending initial, Option<Choseong>
    chojongseong,     \* flip: Vec<(Choseong, Option<Jongseong>)>
    jungseong,        \* flip: Vec<Jungseong>
    flipped,          \* flip: items taken from the reversed, zipped iterator
    one_of_us,        \* codec: what Syllable::is_one_of_us returned
    syllable,         \* codec: what Syllable::try_from returned
    triple,           \* codec: the Syllable given to char::from, Option
    jaeum,            \* jamo: the Jaeum given to Jongseong::try_from, Option
    converted,        \* jamo: what Choseong/Jongseong::try_from returned
    back,             \* jamo: what Jaeum::from(Jongseong) returned, Option
    other,            \* a second call in progress: its locals, Option
    pc                \* where the call is

vars == <<call, extended, source, characters, destination, choseong_pulled,
          new_choseong, chojongseong, jungseong, flipped, one_of_us, syllable,
          triple, jaeum, converted, back, other, pc>>

Init ==
    /\ \/ /\ call \in {"pullup", "pushdown"}
          /\ extended \in BOOLEAN
          /\ source \in Texts \cup Pairs \cup GuardPairs
          /\ triple = None
          /\ jaeum = None
       \/ /\ call = "flip"
          /\ extended = FALSE
          /\ source \in Texts
          /\ triple = None
          /\ jaeum = None
       \/ /\ call = "codec"
          /\ extended = FALSE
          /\ source \in {<<c>> : c \in CodecChars}
          /\ triple = None
          /\ jaeum = None
       \/ /\ call \in {"pullup_choseong", "pushdown_jongseong"}
          /\ extended = FALSE
          /\ source \in Texts
          /\ triple = None
          /\ jaeum = None
       \/ /\ call = "choseong"
          /\ extended = FALSE
          /\ source \in {<<c>> : c \in JamoChars}
          /\ triple = None
          /\ jaeum = None
       \/ /\ call = "jongseong"
          /\ extended = FALSE
          /\ source = <<>>
          /\ triple = None
          /\ jaeum \in {Some(j) : j \in Jaeum}
       \/ /\ call = "compose"
          /\ extended = FALSE
          /\ source = <<>>
          /\ triple \in {Some(t) : t \in Syllables}
          /\ jaeum = None
    /\ converted = None
    /\ back = None
    /\ other = None
    /\ characters = 1
    /\ destination = <<>>
    /\ choseong_pulled = FALSE
    /\ new_choseong = None
    /\ chojongseong = <<>>
    /\ jungseong = <<>>
    /\ flipped = 0
    /\ one_of_us = FALSE
    /\ syllable = None
    /\ pc = call

\* characters.peek() once characters.next() has yielded source[characters]
Peek == IF characters + 1 <= Len(source) THEN Some(source[characters + 1]) ELSE None

\* --- pullup_choseong, pushdown_jongseong ---

\* Faulty variant of DefaultRuleset: the wrappers ask for the extended rules.
ExtendedRuleset == TRUE

\* The flag the two wrappers pass: `.._config(source, false)`.
DefaultRuleset == FALSE

\* pullup_choseong(source) calls pullup_choseong_config(source, false).
PullupChoseong ==
    /\ pc = "pullup_choseong"
    /\ extended' = DefaultRuleset
    /\ pc' = "pullup"
    /\ UNCHANGED <<call, other, triple, jaeum, converted, back, source,
                   characters,
                   destination, choseong_pulled, new_choseong, chojongseong,
                   jungseong, flipped, one_of_us, syllable>>

\* pushdown_jongseong(source) calls pushdown_jongseong_config(source, false).
PushdownJongseong ==
    /\ pc = "pushdown_jongseong"
    /\ extended' = DefaultRuleset
    /\ pc' = "pushdown"
    /\ UNCHANGED <<call, other, triple, jaeum, converted, back, source,
                   characters,
                   destination, choseong_pulled, new_choseong, chojongseong,
                   jungseong, flipped, one_of_us, syllable>>

\* --- pullup_choseong_config ---

\* One iteration of the while loop.
PullupNext ==
    /\ pc = "pullup"
    /\ characters <= Len(source)
    /\ LET it == PullupBody(destination, source[characters], Peek,
                            choseong_pulled, extended)
       IN  IF IsPanic(it.destination)
           THEN /\ pc' = "panic"
                /\ UNCHANGED <<destination, characters, choseong_pulled>>
           ELSE /\ destination' = Unwrap(it.destination)
                /\ choseong_pulled' = it.pulled
                /\ characters' = characters + 1
                /\ pc' = pc
    /\ UNCHANGED <<call, other, triple, jaeum, converted, back, extended,
                   source, new_choseong, chojongseong,
                   jungseong, flipped, one_of_us, syllable>>

\* characters.next() is None: the function returns destination.
PullupReturn ==
    /\ pc = "pullup"
    /\ characters > Len(source)
    /\ pc' = "done"
    /\ UNCHANGED <<call, other, triple, jaeum, converted, back, extended,
                   source, characters, destination,
                   choseong_pulled, new_choseong, chojongseong, jungseong,
                   flipped, one_of_us, syllable>>

\* --- pushdown_jongseong_config ---

\* One iteration of the while loop.
PushdownNext ==
    /\ pc = "pushdown"
    /\ characters <= Len(source)
    /\ LET it == PushdownBody(destination, source[characters], Peek,
                              new_choseong, extended)
       IN  IF IsPanic(it.destination)
           THEN /\ pc' = "panic"
                /\ UNCHANGED <<destination, characters, new_choseong>>
           ELSE /\ destination' = Unwrap(it.destination)
                /\ new_choseong' = it.pending
                /\ characters' = characters + 1
                /\ pc' = pc
    /\ UNCHANGED <<call, other, triple, jaeum, converted, back, extended,
                   source, choseong_pulled, chojongseong,
                   jungseong, flipped, one_of_us, syllable>>

\* characters.next() is None: the function returns destination.
PushdownReturn ==
    /\ pc = "pushdown"
    /\ characters > Len(source)
    /\ pc' = "done"
    /\ UNCHANGED <<call, other, triple, jaeum, converted, back, extended,
                   source, characters, destination,
                   choseong_pulled, new_choseong, chojongseong, jungseong,
                   flipped, one_of_us, syllable>>

\* --- flip_chojongseong_horizontally ---

\* The first loop, one char: a syllable's parts are pushed on the two Vecs.
FlipCollect ==
    /\ pc = "flip"
    /\ characters <= Len(source)
    /\ IF is_one_of_us(source[characters])
       THEN LET r == SyllableTryFrom(source[characters])
            IN  IF IsOk(r)
                THEN /\ chojongseong' = Append(chojongseong,
                            <<Unwrap(r).choseong, Unwrap(r).jongseong>>)
                     /\ jungseong' = Append(jungseong, Unwrap(r).jungseong)
                     /\ characters' = characters + 1
                     /\ pc' = pc
                ELSE /\ pc' = "panic"
                     /\ UNCHANGED <<chojongseong, jungseong, characters>>
       ELSE /\ characters' = characters + 1
            /\ UNCHANGED <<chojongseong, jungseong, pc>>
    /\ UNCHANGED <<call, other, triple, jaeum, converted, back, extended,
                   source, destination, choseong_pulled,
                   new_choseong, flipped, one_of_us, syllable>>

\* `let mut flipped = chojongseong.into_iter().rev().zip(..)`, and the second
\* loop starts a new source.chars().
FlipZip ==
    /\ pc = "flip"
    /\ characters > Len(source)
    /\ flipped' = 0
    /\ characters' = 1
    /\ pc' = "flip_emit"
    /\ UNCHANGED <<call, other, triple, jaeum, converted, back, extended,
                   source, destination, choseong_pulled,
                   new_choseong, chojongseong, jungseong, one_of_us, syllable>>

\* The second loop, one char.
FlipEmit ==
    /\ pc = "flip_emit"
    /\ characters <= Len(source)
    /\ IF is_one_of_us(source[characters])
       THEN LET item == FlippedNext(chojongseong, jungseong, flipped)
                d == IF item = None THEN Panic
                     ELSE PushSyllable(destination,
                            Syllable(item[1][1][1], item[1][2], item[1][1][2]))
            IN  IF IsPanic(d)
                THEN /\ pc' = "panic"
                     /\ UNCHANGED <<destination, flipped, characters>>
                ELSE /\ destination' = Unwrap(d)
                     /\ flipped' = flipped + 1
                     /\ characters' = characters + 1
                     /\ pc' = pc
       ELSE /\ destination' = Push(destination, source[characters])
            /\ characters' = characters + 1
            /\ UNCHANGED <<flipped, pc>>
    /\ UNCHANGED <<call, other, triple, jaeum, converted, back, extended,
                   source, choseong_pulled, new_choseong,
                   chojongseong, jungseong, one_of_us, syllable>>

FlipReturn ==
    /\ pc = "flip_emit"
    /\ characters > Len(source)
    /\ pc' = "done"
    /\ UNCHANGED <<call, other, triple, jaeum, converted, back, extended,
                   source, characters, destination,
                   choseong_pulled, new_choseong, chojongseong, jungseong,
                   flipped, one_of_us, syllable>>

\* --- the codec, called on one char ---

\* Syllable::is_one_of_us(c)
IsOneOfUs ==
    /\ pc = "codec"
    /\ one_of_us' = is_one_of_us(source[1])
    /\ pc' = "try_from"
    /\ UNCHANGED <<call, other, triple, jaeum, converted, back, extended,
                   source, characters, destination,
                   choseong_pulled, new_choseong, chojongseong, jungseong,
                   flipped, syllable>>

\* Syllable::try_from(c)
TryFrom ==
    /\ pc = "try_from"
    /\ LET r == SyllableTryFrom(source[1])
       IN  /\ syllable' = r
           /\ pc' = IF IsPanic(r) THEN "panic"
                    ELSE IF IsOk(r) THEN "from" ELSE "done"
    /\ UNCHANGED <<call, other, triple, jaeum, converted, back, extended,
                   source, characters, destination,
                   choseong_pulled, new_choseong, chojongseong, jungseong,
                   flipped, one_of_us>>

\* char::from(syllable), pushed on the output.
From ==
    /\ pc = "from"
    /\ LET d == PushSyllable(destination, Unwrap(syllable))
       IN  IF IsPanic(d)
           THEN /\ pc' = "panic"
                /\ UNCHANGED destination
           ELSE /\ destination' = Unwrap(d)
                /\ pc' = "done"
    /\ UNCHANGED <<call, other, triple, jaeum, converted, back, extended,
                   source, characters, choseong_pulled,
                   new_choseong, chojongseong, jungseong, flipped, one_of_us,
                   syllable>>

\* char::from(syllable) on a Syllable given, pushed on the output.
Compose ==
    /\ pc = "compose"
    /\ LET d == PushSyllable(destination, triple[1])
       IN  IF IsPanic(d)
           THEN /\ pc' = "panic"
                /\ UNCHANGED destination
           ELSE /\ destination' = Unwrap(d)
                /\ pc' = "decompose"
    /\ UNCHANGED <<call, other, triple, jaeum, converted, back, extended,
                   source,
                   characters, choseong_pulled, new_choseong, chojongseong,
                   jungseong, flipped, one_of_us, syllable>>

\* Syllable::try_from on the char that char::from returned.
Decompose ==
    /\ pc = "decompose"
    /\ LET r == SyllableTryFrom(Chars(destination)[1])
       IN  /\ syllable' = r
           /\ pc' = IF IsPanic(r) THEN "panic" ELSE "done"
    /\ UNCHANGED <<call, other, triple, jaeum, converted, back, extended,
                   source,
                   characters, destination, choseong_pulled, new_choseong,
                   chojongseong, jungseong, flipped, one_of_us>>

\* --- the consonant conversions ---

\* Choseong::try_from(char)
ChoseongTryFrom ==
    /\ pc = "choseong"
    /\ LET r == ChoseongTryFromChar(source[1])
       IN  /\ converted' = r
           /\ pc' = IF IsPanic(r) THEN "panic" ELSE "done"
    /\ UNCHANGED <<call, other, triple, jaeum, back, extended, source,
                   characters, destination, choseong_pulled, new_choseong,
                   chojongseong, jungseong, flipped, one_of_us, syllable>>

\* Jongseong::try_from(Jaeum)
JongseongTryFrom ==
    /\ pc = "jongseong"
    /\ LET r == JongseongTryFromJaeum(jaeum[1])
       IN  /\ converted' = r
           /\ pc' = IF IsOk(r) THEN "jaeum" ELSE "done"
    /\ UNCHANGED <<call, other, triple, jaeum, back, extended, source,
                   characters, destination, choseong_pulled, new_choseong,
                   chojongseong, jungseong, flipped, one_of_us, syllable>>

\* Jaeum::from(Jongseong), on the Jongseong just made.
JaeumFrom ==
    /\ pc = "jaeum"
    /\ back' = Some(JaeumFromJongseong(Unwrap(converted)))
    /\ pc' = "done"
    /\ UNCHANGED <<call, other, triple, jaeum, converted, extended, source,
                   characters, destination, choseong_pulled, new_choseong,
                   chojongseong, jungseong, flipped, one_of_us, syllable>>

Next ==
    \/ PullupNext \/ PullupReturn
    \/ PushdownNext \/ PushdownReturn
    \/ FlipCollect \/ FlipZip \/ FlipEmit \/ FlipReturn
    \/ IsOneOfUs \/ TryFrom \/ From
    \/ Compose \/ Decompose
    \/ PullupChoseong \/ PushdownJongseong
    \/ ChoseongTryFrom \/ JongseongTryFrom \/ JaeumFrom

Spec == Init /\ [][Next]_vars

\* The String returned, as chars.
output == Chars(destination)
Done == pc = "done"

-----------------------------------------------------------------------------
(* Two calls of the transforms in progress at once, on two threads or one   *)
(* after the other: each has its own locals (`let mut ..` of the function   *)
(* body), and the scheduler runs either.  `other` holds the locals of the   *)
(* call that is not running.                                                *)

\* The texts of the two calls: they set and take the pending flags.
SessionTexts ==
    {<<>>, <<51060, 48520>>, <<44033, 50504>>, <<51060, 54644>>,
     <<50975, 50504>>, <<44033, 32, 50504>>, <<51077, 50872, 44033>>}

\* The locals of the running call.
Frame ==
    [call |-> call, extended |-> extended, source |-> source,
     characters |-> characters, destination |-> destination,
     choseong_pulled |-> choseong_pulled, new_choseong |-> new_choseong,
     chojongseong |-> chojongseong, jungseong |-> jungseong,
     flipped |-> flipped, pc |-> pc]

\* The locals of a call at its entry.
Entry(c, e, s) ==
    [call |-> c, extended |-> e, source |-> s, characters |-> 1,
     destination |-> <<>>, choseong_pulled |-> FALSE, new_choseong |-> None,
     chojongseong |-> <<>>, jungseong |-> <<>>, flipped |-> 0, pc |-> c]

Entries ==
    {Entry(c, e, s) : c \in {"pullup", "pushdown"}, e \in BOOLEAN,
                      s \in SessionTexts}
        \cup {Entry("flip", FALSE, s) : s \in SessionTexts}

\* Faulty variants of PulledOf and PendingOf: the pending state is a static
\* of the crate, shared by the calls, instead of a local.
Static_PulledOf(frame) == choseong_pulled
Static_PendingOf(frame) == new_choseong

\* `let mut choseong_pulled` and `let mut new_choseong` of a call.
PulledOf(frame) == frame.choseong_pulled
PendingOf(frame) == frame.new_choseong

InitCalls ==
    /\ \E f \in Entries :
        /\ call = f.call
        /\ extended = f.extended
        /\ source = f.source
        /\ pc = f.pc
    /\ characters = 1
    /\ destination = <<>>
    /\ choseong_pulled = FALSE
    /\ new_choseong = None
    /\ chojongseong = <<>>
    /\ jungseong = <<>>
    /\ flipped = 0
    /\ one_of_us = FALSE
    /\ syllable = None
    /\ triple = None
    /\ jaeum = None
    /\ converted = None
    /\ back = None
    /\ other \in {Some(f) : f \in Entries}

\* The scheduler runs the other call: the running call's locals are set
\* aside and the other's are current.
Switch ==
    /\ other # None
    /\ other' = Some(Frame)
    /\ call' = other[1].call
    /\ extended' = other[1].extended
    /\ source' = other[1].source
    /\ characters' = other[1].characters
    /\ destination' = other[1].destination
    /\ choseong_pulled' = PulledOf(other[1])
    /\ new_choseong' = PendingOf(other[1])
    /\ chojongseong' = other[1].chojongseong
    /\ jungseong' = other[1].jungseong
    /\ flipped' = other[1].flipped
    /\ pc' = other[1].pc
    /\ UNCHANGED <<one_of_us, syllable, triple, jaeum, converted, back>>

NextCalls ==
    \/ PullupNext \/ PullupReturn
    \/ PushdownNext \/ PushdownReturn
    \/ FlipCollect \/ FlipZip \/ FlipEmit \/ FlipReturn
    \/ Switch

SpecCalls == InitCalls /\ [][NextCalls]_vars

------------------------------------------------------------------------------
(* One call of pull-up or push-down, run to its return.  The functions are  *)
(* synchronous and have no suspension point: a call whose loop can iterate  *)
(* or return goes on to do so, which is weak fairness of the while loop.    *)

InitPass == Init /\ call \in {"pullup", "pushdown"}

NextPass ==
    \/ PullupNext \/ PullupReturn
    \/ PushdownNext \/ PushdownReturn

\* What `while let Some(current) = characters.next()` does to the cursor and
\* to the position of the call: the next iteration while a char is left, the
\* return when none is.  By the guards of PullupNext, PullupReturn,
\* PushdownNext and PushdownReturn one of them is enabled exactly when the
\* call is in its loop.
Iterates ==
    /\ pc \in {"pullup", "pushdown"}
    /\ IF characters <= Len(source)
       THEN characters' = characters + 1 /\ pc' = pc
       ELSE characters' = characters /\ pc' = "done"

SpecPass == InitPass /\ [][NextPass]_vars /\ WF_<<characters, pc>>(Iterates)

-----------------------------------------------------------------------------
(* The entry points as functions of their arguments: the loops above, run   *)
(* from the first char to the return.  Ok(bytes of the String) or Panic.    *)

RECURSIVE PullupLoop(_, _, _, _, _)
PullupLoop(src, i, pulled, dest, extended_rulset) ==
    IF i > Len(src) THEN Ok(dest)
    ELSE LET it == PullupBody(dest, src[i],
                       IF i + 1 <= Len(src) THEN Some(src[i + 1]) ELSE None,
                       pulled, extended_rulset)
         IN  IF IsPanic(it.destination) THEN Panic
             ELSE PullupLoop(src, i + 1, it.pulled, Unwrap(it.destination),
                             extended_rulset)

pullup_choseong_config(src, extended_rulset) ==
    PullupLoop(src, 1, FALSE, <<>>, extended_rulset)

pullup_choseong(src) == pullup_choseong_config(src, DefaultRuleset)

RECURSIVE PushdownLoop(_, _, _, _, _)
PushdownLoop(src, i, pending, dest, extended_flag) ==
    IF i > Len(src) THEN Ok(dest)
    ELSE LET it == PushdownBody(dest, src[i],
                       IF i + 1 <= Len(src) THEN Some(src[i + 1]) ELSE None,
                       pending, extended_flag)
         IN  IF IsPanic(it.destination) THEN Panic
             ELSE PushdownLoop(src, i + 1, it.pending, Unwrap(it.destination),
                               extended_flag)

pushdown_jongseong_config(src, extended_flag) ==
    PushdownLoop(src, 1, None, <<>>, extended_flag)

pushdown_jongseong(src) == pushdown_jongseong_config(src, DefaultRuleset)

\* The first loop of the flip over src[i..]: the two Vecs (Panic when the
\* unwrap of try_from fails).
RECURSIVE FlipCollectLoop(_, _, _, _)
FlipCollectLoop(src, i, cj, jung) ==
    IF i > Len(src) THEN Ok(<<cj, jung>>)
    ELSE IF ~is_one_of_us(src[i]) THEN FlipCollectLoop(src, i + 1, cj, jung)
    ELSE LET r == SyllableTryFrom(src[i])
         IN  IF ~IsOk(r) THEN Panic
             ELSE FlipCollectLoop(src, i + 1,
                    Append(cj, <<Unwrap(r).choseong, Unwrap(r).jongseong>>),
                    Append(jung, Unwrap(r).jungseong))

\* The second loop of the flip over src[i..].
RECURSIVE FlipEmitLoop(_, _, _, _, _, _)
FlipEmitLoop(src, i, cj, jung, taken, dest) ==
    IF i > Len(src) THEN Ok(dest)
    ELSE IF ~is_one_of_us(src[i])
    THEN FlipEmitLoop(src, i + 1, cj, jung, taken, Push(dest, src[i]))
    ELSE LET item == FlippedNext(cj, jung, taken)
             d == IF item = None THEN Panic
                  ELSE PushSyllable(dest,
                         Syllable(item[1][1][1], item[1][2], item[1][1][2]))
         IN  IF IsPanic(d) THEN Panic
             ELSE FlipEmitLoop(src, i + 1, cj, jung, taken + 1, Unwrap(d))

flip_chojongseong_horizontally(src) ==
    LET vecs == FlipCollectLoop(src, 1, <<>>, <<>>)
    IN  IF IsPanic(vecs) THEN Panic
        ELSE FlipEmitLoop(src, 1, Unwrap(vecs)[1], Unwrap(vecs)[2], 0, <<>>)
-----------------------------------------------------------------------------
(* The claims.  A char is read the way Unicode lays the Hangul Syllables    *)
(* block out, independently of the codec above: Hangul(c) iff c is in       *)
(* [U+AC00, U+D7A3], and then c = U+AC00 + initial * 588 + medial * 28 +    *)
(* final, with final 0 for "no final".                                      *)

Hangul(c) == c >= 44032 /\ c <= 55203
InitialOf(c) == (c - 44032) \div 588
MedialOf(c) == ((c - 44032) \div 28) % 21
FinalOf(c) == IF (c - 44032) % 28 = 0 THEN None ELSE Some((c - 44032) % 28)

Transforms == {"pullup", "pushdown", "flip"}

\* C1: round trip.  For every char c with codepoint in [U+AC00, U+D7A3],
\* Syllable::try_from(c) succeeds and char::from of the result is c again:
\* once the codec call on such a c has run, it has not panicked, the
\* decomposition is Ok and the recomposed char is c.
C1_RoundTrip ==
    (call = "codec" /\ pc \in {"done", "panic"} /\ Hangul(source[1]))
        => (pc = "done" /\ IsOk(syllable) /\ output = source)

\* U+D7A3, the last syllable (final Hieuh), has made the round trip.
C1_Witness ==
    call = "codec" /\ pc = "done" /\ source = <<55203>> /\ output = <<55203>>

\* C9: range exactness.  Syllable::is_one_of_us(c) is true iff the codepoint
\* of c is in [U+AC00, U+D7A3]; in particular it is false for U+ABFF, U+D7A4
\* and the archaic U+D7B0.
C9_RangeExact ==
    (call = "codec" /\ pc # "codec")
        => /\ one_of_us <=> (source[1] >= 44032 /\ source[1] <= 55203)
           /\ source[1] \in {44031, 55204, 55216} => ~one_of_us

\* is_one_of_us has answered false on U+D7A4.
C9_Witness ==
    call = "codec" /\ pc # "codec" /\ source = <<55204>> /\ ~one_of_us

\* C10: decomposition of a char outside [U+AC00, U+D7A3] does not panic and
\* returns Err(NonKorean(c)) with c the char given; decomposition is Ok iff
\* the char is in the range.
C10_NonKorean ==
    (call = "codec" /\ pc \in {"from", "done", "panic"})
        => /\ ~IsPanic(syllable)
           /\ IsOk(syllable) <=> Hangul(source[1])
           /\ ~Hangul(source[1])
                => (IsErr(syllable) /\ Unwrap(syllable) = NonKorean(source[1]))

\* Syllable::try_from has returned Err(NonKorean(U+1D11E)).
C10_Witness ==
    /\ call = "codec" /\ pc = "done" /\ source = <<119070>>
    /\ IsErr(syllable) /\ Unwrap(syllable) = NonKorean(119070)
\* The rules of a table that are eligible for a trigger in a mode.
PullupEligible(a, b, e) ==
    {k \in 1..Len(PullupRULESET) :
        /\ PullupRULESET[k][1] = a
        /\ PullupRULESET[k][2] = b
        /\ (PullupRULESET[k][4] => e)}
PushdownEligible(a, e) ==
    {k \in 1..Len(PushdownRULESET) :
        /\ PushdownRULESET[k][1] = a
        /\ (PushdownRULESET[k][4] => e)}

\* The positions i whose chars i and i+1 are both Hangul syllables.
AdjacentPairs ==
    {i \in 1..(Len(source) - 1) : Hangul(source[i]) /\ Hangul(source[i + 1])}

\* The output has the input's length and Hangul syllables at i and i+1.
PairEmitted(i) ==
    /\ Len(output) = Len(source)
    /\ Hangul(output[i])
    /\ Hangul(output[i + 1])

\* The pair at i is as it was where the two syllables meet: syllable i keeps
\* its final and syllable i+1 keeps its initial.
PairKept(i) ==
    /\ FinalOf(output[i]) = FinalOf(source[i])
    /\ InitialOf(output[i + 1]) = InitialOf(source[i + 1])

\* The finals and the next vowels of the palatalization guard.
GuardedFinals == {Some(JongseongTikeut), Some(JongseongThieuth)}
GuardedVowels ==
    {JungseongYa, JungseongYae, JungseongYeo, JungseongYe, JungseongYo,
     JungseongYu, JungseongI}
Guarded(i) ==
    /\ FinalOf(source[i]) \in GuardedFinals
    /\ MedialOf(source[i + 1]) \in GuardedVowels

\* C2: pull-up rule application.  For every input and mode e and every pair
\* of adjacent Hangul syllables (x[i], x[i+1]): if the pull-up table has a
\* rule (a, b, c, ext) with a the final of x[i], b the initial of x[i+1] and
\* ext => e, then output syllable i has final c and output syllable i+1 has
\* initial Ieung; if it has none, output syllable i keeps the final of x[i]
\* and output syllable i+1 keeps the initial of x[i+1].
C2_PullupRule ==
    (call = "pullup" /\ Done) =>
        \A i \in AdjacentPairs :
            LET rules == PullupEligible(FinalOf(source[i]),
                                        InitialOf(source[i + 1]), extended)
            IN  /\ PairEmitted(i)
                /\ IF rules # {}
                   THEN \E k \in rules :
                          /\ FinalOf(output[i]) = PullupRULESET[k][3]
                          /\ InitialOf(output[i + 1]) = ChoseongIeung
                   ELSE PairKept(i)

\* pullup("이불") has returned "입울".
C2_Witness ==
    /\ call = "pullup" /\ Done /\ ~extended
    /\ source = <<51060, 48520>>
    /\ output = <<51077, 50872>>

\* C3: push-down rule application.  For every input and mode e and every
\* pair of adjacent Hangul syllables (x[i], x[i+1]) the palatalization guard
\* does not suppress: if x[i+1] has initial Ieung and the push-down table has
\* a rule (a, b, c, ext) with a the final of x[i] and ext => e, then output
\* syllable i has final b (possibly none) and output syllable i+1 has initial
\* c; if the initial of x[i+1] is not Ieung, or x[i] has no final or final
\* Ieung, or no rule is eligible, output syllable i keeps its final and
\* output syllable i+1 keeps its initial.
C3_PushdownRule ==
    (call = "pushdown" /\ Done) =>
        \A i \in AdjacentPairs :
            (extended \/ ~Guarded(i)) =>
            LET a == FinalOf(source[i])
                rules == PushdownEligible(a, extended)
            IN  /\ PairEmitted(i)
                /\ a \in {None, Some(JongseongIeung)} => rules = {}
                /\ IF InitialOf(source[i + 1]) = ChoseongIeung /\ rules # {}
                   THEN \E k \in rules :
                          /\ FinalOf(output[i]) = PushdownRULESET[k][2]
                          /\ InitialOf(output[i + 1]) = PushdownRULESET[k][3]
                   ELSE PairKept(i)

\* pushdown("각안") has returned "가간".
C3_Witness ==
    /\ call = "pushdown" /\ Done /\ ~extended
    /\ source = <<44033, 50504>>
    /\ output = <<44032, 44036>>

ExtendedPullups ==
    {<<None, ChoseongHieuh, Some(JongseongHieuh)>>,
     <<Some(JongseongKiyeok), ChoseongKiyeok, Some(JongseongSsangKiyeok)>>,
     <<Some(JongseongNieun), ChoseongHieuh, Some(JongseongNieunHieuh)>>,
     <<Some(JongseongRieul), ChoseongHieuh, Some(JongseongRieulHieuh)>>,
     <<Some(JongseongSios), ChoseongSios, Some(JongseongSsangSios)>>}
ExtendedPushdowns ==
    {<<Some(JongseongHieuh), None>>,
     <<Some(JongseongNieunHieuh), Some(JongseongNieun)>>,
     <<Some(JongseongRieulHieuh), Some(JongseongRieul)>>}

\* The chars of what push-down returns on the pull-up output, in a mode.
PushedBack(e) ==
    LET r == pushdown_jongseong_config(output, e)
    IN  IF IsOk(r) THEN Chars(Unwrap(r)) ELSE <<>>

C6_LengthPreserved ==
    (call \in Transforms /\ Done) => Len(output) = Len(source)

\* Pull-up of a text of MaxLen chars that ends in a syllable followed by a
\* char that is none has returned, with a syllable rewritten.
C6_Witness ==
    /\ call = "pullup" /\ Done
    /\ Len(source) = MaxLen /\ Len(output) = MaxLen
    /\ Hangul(source[MaxLen - 1]) /\ ~Hangul(source[MaxLen])
    /\ output # source

\* C7: non-Hangul pass-through.  For pull-up, push-down (both modes) and
\* flip, every input char that is no precomposed Hangul syllable is at the
\* same position of the output, unchanged, and an output position holds a
\* Hangul syllable iff the same input position does; a text without Hangul
\* syllables is returned as it is.
C7_PassThrough ==
    (call \in Transforms /\ Done) =>
        /\ Len(output) = Len(source)
        /\ \A i \in 1..Len(source) :
            /\ ~Hangul(source[i]) => output[i] = source[i]
            /\ Hangul(output[i]) <=> Hangul(source[i])
        /\ (\A i \in 1..Len(source) : ~Hangul(source[i])) => output = source

\* Push-down of "각 안" has returned "각 안": the space is where it was, and
\* so are the syllables on either side of it.
C7_Witness ==
    /\ call = "pushdown" /\ Done
    /\ source = <<44033, 32, 50504>>
    /\ output = <<44033, 32, 50504>>

\* The number of Hangul syllables among the first n chars of the input.
SyllablesIn(n) == Cardinality({i \in 1..n : Hangul(source[i])})

\* C8: no crash.  For every input and either mode, pull-up, push-down and
\* flip run to completion and no unwrap in them fails: no call panics, and
\* a call that has read all its chars has returned or is about to; every
\* char emitted for a syllable is in [U+AC00, U+D7A3]; the pending initial is
\* a Choseong whenever it is present; and in the flip's second loop the
\* reversed iterator still holds one item for every syllable not yet emitted.
C8_NoCrash ==
    call \in Transforms =>
        /\ pc # "panic"
        /\ characters <= Len(source) + 1
        /\ Done => characters = Len(source) + 1
        /\ Len(output) <= Len(source)
        /\ \A i \in 1..Len(output) : Hangul(source[i]) => Hangul(output[i])
        /\ new_choseong = None \/ (new_choseong[1] \in Choseong)
        /\ pc = "flip_emit" =>
             /\ Len(chojongseong) = SyllablesIn(Len(source))
             /\ Len(jungseong) = SyllablesIn(Len(source))
             /\ flipped = SyllablesIn(characters - 1)

\* The flip of "각 이" has returned "아 긱".
C8_Witness ==
    /\ call = "flip" /\ Done
    /\ source = <<44033, 32, 51060>>
    /\ output = <<50500, 32, 44593>>
\* C11: bijection.  For every triple (initial of the 19, medial of the 21,
\* final of the 27 or none), Syllable::try_from of the char that char::from
\* makes of the triple is Ok and returns that triple, field for field, and
\* the char is in [U+AC00, U+D7A3]; there are as many triples as codepoints
\* in the range, 11172.
C11_Bijection ==
    /\ (call = "compose" /\ pc \in {"done", "panic"}) =>
          /\ pc = "done"
          /\ Hangul(output[1])
          /\ IsOk(syllable)
          /\ Unwrap(syllable).choseong = triple[1].choseong
          /\ Unwrap(syllable).jungseong = triple[1].jungseong
          /\ Unwrap(syllable).jongseong = triple[1].jongseong
    /\ (call = "compose" /\ pc = "compose" /\ triple[1] = Syllable(0, 0, None)) =>
          /\ Cardinality(Syllables) = 11172
          /\ Cardinality(Syllables) = (55203 - 44032) + 1

\* (Hieuh, I, Hieuh), the last triple, has been composed to U+D7A3 and
\* decomposed to itself.
C11_Witness ==
    /\ call = "compose" /\ pc = "done"
    /\ triple = Some(Syllable(18, 20, Some(27)))
    /\ output = <<55203>>
    /\ Unwrap(syllable) = Syllable(18, 20, Some(27))

\* C12: composition is total and in range.  For every Syllable value,
\* char::from(Syllable) does not panic (char::from_u32(..).unwrap() does not
\* fail) and returns the char 0xAC00 + initial*21*28 + medial*28 + final,
\* with final 0 when absent, which is in [U+AC00, U+D7A3].
C12_CompositionTotal ==
    (call = "compose" /\ pc # "compose") =>
        LET t == triple[1]
            final == IF t.jongseong = None THEN 0 ELSE t.jongseong[1]
        IN  /\ pc # "panic"
            /\ Len(output) = 1
            /\ output[1] = 44032 + (t.choseong * 21 * 28) + (t.jungseong * 28)
                              + final
            /\ output[1] >= 44032
            /\ output[1] <= 55203

\* (Kiyeok, A, none), the first triple, has been composed to U+AC00.
C12_Witness ==
    /\ call = "compose" /\ pc = "decompose"
    /\ triple = Some(Syllable(0, 0, None))
    /\ output = <<44032>>

\* C13: decomposition arithmetic.  For every char in the range, with offset
\* = codepoint - 0xAC00: the conversions to enum members do not fail; the
\* final is none when offset mod 28 is 0 and the final numbered offset mod 28
\* otherwise; the medial is (offset div 28) mod 21; the initial is offset div
\* 588.
C13_DecompositionArithmetic ==
    (call = "codec" /\ pc \in {"from", "done", "panic"} /\ Hangul(source[1])) =>
        LET offset == source[1] - 44032
        IN  /\ pc # "panic"
            /\ IsOk(syllable)
            /\ (offset % 28 = 0) => Unwrap(syllable).jongseong = None
            /\ (offset % 28 >= 1) =>
                  Unwrap(syllable).jongseong = Some(offset % 28)
            /\ Unwrap(syllable).jungseong = (offset \div 28) % 21
            /\ Unwrap(syllable).choseong = offset \div 588

\* U+D55C has been decomposed to (Hieuh, A, Nieun).
C13_Witness ==
    /\ call = "codec" /\ pc = "from" /\ source = <<54620>>
    /\ Unwrap(syllable) = Syllable(18, 0, Some(4))
\* The chars the ordinary-mode call returns on the text of this call.
OrdinaryOutput ==
    LET r == IF call = "pullup" THEN pullup_choseong_config(source, FALSE)
             ELSE pushdown_jongseong_config(source, FALSE)
    IN  IF IsOk(r) THEN Chars(Unwrap(r)) ELSE <<>>

\* The pairs (i, i+1) of adjacent syllables on which a rule flagged extended
\* of this call's table has its trigger met.
ExtendedTriggers ==
    {i \in AdjacentPairs :
        IF call = "pullup"
        THEN \E k \in 1..Len(PullupRULESET) :
                /\ PullupRULESET[k][4]
                /\ PullupRULESET[k][1] = FinalOf(source[i])
                /\ PullupRULESET[k][2] = InitialOf(source[i + 1])
        ELSE \E k \in 1..Len(PushdownRULESET) :
                /\ PushdownRULESET[k][4]
                /\ PushdownRULESET[k][1] = FinalOf(source[i])
                /\ InitialOf(source[i + 1]) = ChoseongIeung}

\* The pairs on which push-down's guard holds an ordinary rule back: final
\* Tikeut or Thieuth, then initial Ieung with an iotated vowel.
GuardLifted ==
    {i \in AdjacentPairs :
        /\ call = "pushdown"
        /\ Guarded(i)
        /\ InitialOf(source[i + 1]) = ChoseongIeung}

\* The positions of the pairs of a set: i and i+1 for every i in it.
PositionsOf(pairs) == pairs \cup {i + 1 : i \in pairs}

\* C14 as stated: for pull-up and for push-down, the extended-mode output and
\* the ordinary-mode output agree at every position that is not in a pair on
\* which a rule flagged extended has its trigger met.
C14_FlaggedRulesOnly ==
    (call \in {"pullup", "pushdown"} /\ Done /\ extended) =>
        /\ Len(output) = Len(OrdinaryOutput)
        /\ \A i \in 1..Len(source) :
              i \notin PositionsOf(ExtendedTriggers)
                  => output[i] = OrdinaryOutput[i]

\* C14, amended: for pull-up and for push-down, the extended-mode output and
\* the ordinary-mode output agree at every position that is neither in a
\* pair on which a rule flagged extended has its trigger met nor, for
\* push-down, in a pair the palatalization guard suppresses in ordinary mode
\* (final Tikeut or Thieuth before Ieung + Ya, Yae, Yeo, Ye, Yo, Yu or I).
C14_MonotoneInclusion ==
    (call \in {"pullup", "pushdown"} /\ Done /\ extended) =>
        /\ Len(output) = Len(OrdinaryOutput)
        /\ \A i \in 1..Len(source) :
              i \notin PositionsOf(ExtendedTriggers \cup GuardLifted)
                  => output[i] = OrdinaryOutput[i]

\* On "윟안각" the two modes of push-down differ on the pair (윟, 안), where
\* the extended Hieuh rule fires, and agree on the third syllable; ordinary
\* mode returns the text as it is.
C14_Witness ==
    /\ call = "pushdown" /\ Done /\ extended
    /\ source = <<50975, 50504, 44033>>
    /\ output # OrdinaryOutput
    /\ output[3] = OrdinaryOutput[3]
    /\ OrdinaryOutput = source
\* The position of the k-th Hangul syllable of a text, counting from 1.
HangulAt(text, k) ==
    CHOOSE i \in 1..Len(text) :
        /\ Hangul(text[i])
        /\ Cardinality({j \in 1..i : Hangul(text[j])}) = k

\* C15: the horizontal flip.  If the input has n Hangul syllables, then for
\* every k in 1..n the k-th Hangul syllable of the output sits where the k-th
\* of the input does, has the initial and the final of the (n+1-k)-th Hangul
\* syllable of the input (both, moved together) and the medial of the k-th.
C15_HorizontalFlip ==
    (call = "flip" /\ Done) =>
        LET n == SyllablesIn(Len(source))
        IN  /\ Len(output) = Len(source)
            /\ Cardinality({j \in 1..Len(output) : Hangul(output[j])}) = n
            /\ \A k \in 1..n :
                LET here == HangulAt(source, k)
                    there == HangulAt(source, (n + 1) - k)
                IN  /\ HangulAt(output, k) = here
                    /\ InitialOf(output[here]) = InitialOf(source[there])
                    /\ FinalOf(output[here]) = FinalOf(source[there])
                    /\ MedialOf(output[here]) = MedialOf(source[here])

\* The flip of "불 이" has returned "우 빌": (Pieup, Rieul) and (Ieung, none)
\* have changed places around the space, the vowels U and I have stayed.
C15_Witness ==
    /\ call = "flip" /\ Done
    /\ source = <<48520, 32, 51060>>
    /\ InitialOf(output[1]) = ChoseongIeung /\ FinalOf(output[1]) = None
    /\ MedialOf(output[1]) = JungseongU
    /\ InitialOf(output[3]) = ChoseongPieup
    /\ FinalOf(output[3]) = Some(JongseongRieul)
    /\ MedialOf(output[3]) = JungseongI
\* What the _config function of a wrapper returns on the text of this call
\* in a mode, as chars; <<>> if it panics.
ConfigOutput(mode) ==
    LET r == IF call = "pullup_choseong"
             THEN pullup_choseong_config(source, mode)
             ELSE pushdown_jongseong_config(source, mode)
    IN  IF IsOk(r) THEN Chars(Unwrap(r)) ELSE <<>>

\* C16: the default wrappers.  For every input s, pullup_choseong(s) returns
\* what pullup_choseong_config(s, false) returns and pushdown_jongseong(s)
\* returns what pushdown_jongseong_config(s, false) returns.
C16_DefaultWrappers ==
    (call \in {"pullup_choseong", "pushdown_jongseong"}
        /\ pc \in {"done", "panic"}) =>
            /\ pc = "done"
            /\ output = ConfigOutput(FALSE)

\* pullup_choseong("이해") has returned "이해", where the extended rules
\* would have made it "잏애".
C16_Witness ==
    /\ call = "pullup_choseong" /\ Done
    /\ source = <<51060, 54644>>
    /\ output = <<51060, 54644>>
    /\ ConfigOutput(TRUE) = <<51087, 50528>>
\* What a transform returns on a text in a mode, as a function of the two.
Returned(c, s, e) ==
    LET r == IF c = "pullup" THEN pullup_choseong_config(s, e)
             ELSE IF c = "pushdown" THEN pushdown_jongseong_config(s, e)
             ELSE flip_chojongseong_horizontally(s)
    IN  IF IsOk(r) THEN Unwrap(r) ELSE <<"panic">>

\* C17: determinism and call isolation.  With two calls in progress, run in
\* any order and interleaved at any step: a call enters its loop with its
\* pending state clear; two calls of the same transform on the same text in
\* the same mode return the same String; and what a call returns is what the
\* transform returns on its text and mode when it is run alone.  (The rule
\* tables are immutable statics: no step writes them.)
C17_CallIsolation ==
    /\ pc # "panic"
    /\ (pc = "pullup" /\ characters = 1) => ~choseong_pulled
    /\ (pc = "pushdown" /\ characters = 1) => new_choseong = None
    /\ (Done /\ other[1].pc = "done" /\ call = other[1].call
             /\ source = other[1].source /\ extended = other[1].extended)
          => destination = other[1].destination
    /\ Done => destination = Returned(call, source, extended)

\* Pull-up of "이불" has returned "입울" after extended push-down of "입울각"
\* was started, left with a pending initial, and not yet finished.
C17_Witness ==
    /\ call = "pullup" /\ Done /\ ~extended
    /\ source = <<51060, 48520>>
    /\ output = <<51077, 50872>>
    /\ other[1].call = "pushdown"
    /\ other[1].pc = "pushdown"
    /\ other[1].new_choseong # None
\* The compatibility-jamo consonants that cannot stand in initial position:
\* U+3133, U+3135, U+3136, U+313A .. U+3140, U+3144.
CompoundConsonants == {12595, 12597, 12598, 12612} \cup (12602..12608)

\* C18: Choseong::try_from(char) returns Err(NonJamo(c)) for every
\* compatibility-jamo consonant c that cannot stand in initial position
\* (U+3135, U+313A, ..), and Ok with the matching initial for single
\* consonants such as U+3148 (Cieuc) and U+3145 (Sios).
C18_CompoundIsNonJamo ==
    (call = "choseong" /\ pc \in {"done", "panic"}) =>
        /\ pc = "done"
        /\ source[1] \in CompoundConsonants
              => converted = Err(NonJamo(source[1]))
        /\ source[1] = 12616 => converted = Ok(ChoseongCieuc)
        /\ source[1] = 12613 => converted = Ok(ChoseongSios)

\* The Jaeum and the Jongseong of the same name.
SameNamed ==
    {<<JaeumKiyeok, JongseongKiyeok>>,
     <<JaeumSsangKiyeok, JongseongSsangKiyeok>>,
     <<JaeumKiyeokSios, JongseongKiyeokSios>>,
     <<JaeumNieun, JongseongNieun>>,
     <<JaeumNieunCieuc, JongseongNieunCieuc>>,
     <<JaeumNieunHieuh, JongseongNieunHieuh>>,
     <<JaeumTikeut, JongseongTikeut>>,
     <<JaeumRieul, JongseongRieul>>,
     <<JaeumRieulKiyeok, JongseongRieulKiyeok>>,
     <<JaeumRieulMieum, JongseongRieulMieum>>,
     <<JaeumRieulPieup, JongseongRieulPieup>>,
     <<JaeumRieulSios, JongseongRieulSios>>,
     <<JaeumRieulThieuth, JongseongRieulThieuth>>,
     <<JaeumRieulPhieuph, JongseongRieulPhieuph>>,
     <<JaeumRieulHieuh, JongseongRieulHieuh>>,
     <<JaeumMieum, JongseongMieum>>,
     <<JaeumPieup, JongseongPieup>>,
     <<JaeumPieupSios, JongseongPieupSios>>,
     <<JaeumSios, JongseongSios>>,
     <<JaeumSsangSios, JongseongSsangSios>>,
     <<JaeumIeung, JongseongIeung>>,
     <<JaeumCieuc, JongseongCieuc>>,
     <<JaeumChieuch, JongseongChieuch>>,
     <<JaeumKhieukh, JongseongKhieukh>>,
     <<JaeumThieuth, JongseongThieuth>>,
     <<JaeumPhieuph, JongseongPhieuph>>,
     <<JaeumHieuh, JongseongHieuh>>}

\* The three Jaeum that are no finals.
NoFinals == {JaeumSsangTikeut, JaeumSsangPieup, JaeumSsangCieuc}

\* C19: Jongseong::try_from(Jaeum) fails for exactly three of the 30 Jaeum,
\* SsangTikeut, SsangPieup and SsangCieuc, with NotApplicableToJongseong of
\* that Jaeum, and is Ok with the final of the same name for the other 27;
\* Jaeum::from of that final is the Jaeum given.
C19_JaeumToJongseong ==
    (call = "jongseong" /\ pc # "jongseong") =>
        LET j == jaeum[1]
        IN  /\ pc # "panic"
            /\ Cardinality(Jaeum) = 30
            /\ Cardinality(NoFinals) = 3
            /\ Cardinality(SameNamed) = 27
            /\ IsErr(converted) <=> j \in NoFinals
            /\ j \in NoFinals =>
                 /\ converted = Err(NotApplicableToJongseong(j))
                 /\ Done
            /\ j \notin NoFinals =>
                 /\ IsOk(converted)
                 /\ <<j, Unwrap(converted)>> \in SameNamed
                 /\ Done => back = Some(j)

\* Jaeum::PieupSios has been converted to Jongseong::PieupSios and back.
C19_Witness ==
    /\ call = "jongseong" /\ Done
    /\ jaeum = Some(JaeumPieupSios)
    /\ converted = Ok(JongseongPieupSios)
    /\ back = Some(JaeumPieupSios)
\* The pending state of the running transducer is set.
PendingSet ==
    \/ pc = "pullup" /\ choseong_pulled
    \/ pc = "pushdown" /\ new_choseong # None

\* C20: liaison never crosses a non-Hangul char.  In pull-up and push-down,
\* both modes: whenever the pending flag is set, the char just handled and
\* the char to be scanned next are both Hangul syllables, so the flag is
\* clear whenever a char that is none is scanned and when the input is
\* exhausted, and clear at the return.  In what is returned, a syllable
\* directly followed by a non-Hangul char or by the end of the text has its
\* final as it was, and a syllable directly preceded by a non-Hangul char or
\* at the start of the text has its initial as it was.
C20_NoCrossing ==
    /\ PendingSet =>
         /\ characters >= 2
         /\ characters <= Len(source)
         /\ Hangul(source[characters - 1])
         /\ Hangul(source[characters])
    /\ (pc \in {"pullup", "pushdown"} /\ characters <= Len(source)
            /\ ~Hangul(source[characters])) => ~PendingSet
    /\ (pc \in {"pullup", "pushdown"} /\ characters > Len(source))
          => ~PendingSet
    /\ (call \in {"pullup", "pushdown"} /\ Done) =>
         /\ ~choseong_pulled
         /\ new_choseong = None
         /\ Len(output) = Len(source)
         /\ \A i \in 1..Len(source) :
              Hangul(source[i]) =>
                /\ (i = Len(source) \/ ~Hangul(source[i + 1]))
                      => FinalOf(output[i]) = FinalOf(source[i])
                /\ (i = 1 \/ ~Hangul(source[i - 1]))
                      => InitialOf(output[i]) = InitialOf(source[i])

\* Pull-up of "이불 " has returned "입울 ": the flag was set on (이, 불) and
\* taken by 불, which has kept its final before the space.
C20_Witness ==
    /\ call = "pullup" /\ Done
    /\ source = <<51060, 48520, 32>>
    /\ output = <<51077, 50872, 32>>
    /\ ~choseong_pulled
\* A transducer is about to scan a char that is no Hangul syllable.
ScansNonHangul ==
    /\ pc \in {"pullup", "pushdown"}
    /\ characters <= Len(source)
    /\ ~Hangul(source[characters])

FiringRules(i) ==
    IF call = "pullup"
    THEN PullupEligible(FinalOf(source[i]), InitialOf(source[i + 1]), extended)
    ELSE IF /\ InitialOf(source[i + 1]) = ChoseongIeung
            /\ (extended \/ ~Guarded(i))
         THEN PushdownEligible(FinalOf(source[i]), extended)
         ELSE {}

\* The final a firing rule leaves and the initial it gives to the next.
FinalTo(k) == IF call = "pullup" THEN PullupRULESET[k][3] ELSE PushdownRULESET[k][2]
InitialTo(k) == IF call = "pullup" THEN ChoseongIeung ELSE PushdownRULESET[k][3]

\* The starts i of runs of three syllables i, i+1, i+2 on which both pairs
\* (i, i+1) and (i+1, i+2) match.
DoubleMatches ==
    {i \in AdjacentPairs :
        /\ i + 1 \in AdjacentPairs
        /\ FiringRules(i) # {}
        /\ FiringRules(i + 1) # {}}

\* C22: ordering within one iteration.  In pull-up and push-down, one char is
\* emitted per iteration; and in a run of three syllables i, i+1, i+2 of which
\* both pairs match, each match being read off the input (own final, the
\* next's initial as it is in the input): as soon as the middle syllable is
\* emitted it has both the initial the first match gives it and the final the
\* second match leaves it; at that point the flag is pending again, set by
\* the second match; and the third syllable, once emitted, has the initial
\* the second match gives it.
C22_IterationOrder ==
    (call \in {"pullup", "pushdown"} /\ pc \in {"pullup", "pushdown", "done"}) =>
        /\ Len(output) = characters - 1
        /\ \A i \in DoubleMatches :
            \E k1 \in FiringRules(i) : \E k2 \in FiringRules(i + 1) :
                /\ Len(output) >= i + 1 =>
                     /\ InitialOf(output[i + 1]) = InitialTo(k1)
                     /\ FinalOf(output[i + 1]) = FinalTo(k2)
                /\ (Len(output) = i + 1) =>
                     /\ PendingSet
                     /\ call = "pushdown" => new_choseong = Some(InitialTo(k2))
                /\ Len(output) >= i + 2 =>
                     InitialOf(output[i + 2]) = InitialTo(k2)

\* Pull-up of "이불각" has returned "입욹악": 불 was emitted once, as 욹, with
\* the initial overwritten and the final rewritten.
C22_Witness ==
    /\ call = "pullup" /\ Done /\ ~extended
    /\ source = <<51060, 48520, 44033>>
    /\ DoubleMatches = {1}
    /\ InitialOf(output[2]) = ChoseongIeung
    /\ FinalOf(output[2]) = Some(JongseongRieulKiyeok)
    /\ InitialOf(output[3]) = ChoseongIeung
\* Whether the output differs from the input in the final, and in the
\* initial, of the syllable at position i (never, where there is none).
FinalChanged(i) ==
    /\ i \in 1..Len(source) /\ i <= Len(output)
    /\ Hangul(source[i])
    /\ FinalOf(output[i]) # FinalOf(source[i])

InitialChanged(i) ==
    /\ i \in 1..Len(source) /\ i <= Len(output)
    /\ Hangul(source[i])
    /\ InitialOf(output[i]) # InitialOf(source[i])

\* C23: both halves of a rewrite are applied together.  In pull-up and
\* push-down, in either mode, once positions i and i+1 are emitted, the final
\* at i differs from the input exactly when the initial at i+1 does; the
\* first initial never differs, and nothing differs around a non-Hangul char.
C23_BothHalves ==
    (call \in {"pullup", "pushdown"} /\ pc \in {"pullup", "pushdown", "done"}) =>
        /\ ~InitialChanged(1)
        /\ \A i \in 1..Len(source) :
             (i + 1 <= Len(output) \/ Done) =>
                 (FinalChanged(i) <=> InitialChanged(i + 1))

\* Pull-up of "이불 " has returned "입울 ": the final of the first syllable
\* and the initial of the second both differ from the input.
C23_Witness ==
    /\ call = "pullup" /\ Done
    /\ source = <<51060, 48520, 32>>
    /\ output = <<51077, 50872, 32>>
    /\ FinalChanged(1) /\ InitialChanged(2)
    /\ ~FinalChanged(2)
\* The rules whose condition holds for the pair being scanned: the syllable
\* at `characters` and the one after it.
ScansPair ==
    /\ pc \in {"pullup", "pushdown"}
    /\ characters \in AdjacentPairs

MatchingRules ==
    LET current_syllable == Unwrap(SyllableTryFrom(source[characters]))
        next_syllable == Unwrap(SyllableTryFrom(source[characters + 1]))
    IN  IF pc = "pullup"
        THEN {k \in 1..Len(PullupRULESET) :
                 PullupRuleMatches(PullupRULESET[k], current_syllable,
                                   next_syllable, extended)}
        ELSE {k \in 1..Len(PushdownRULESET) :
                 /\ PushdownGuard(current_syllable, next_syllable, extended)
                 /\ PushdownRuleMatches(PushdownRULESET[k], current_syllable,
                                        next_syllable, extended)}

\* The properties of the two tables alone.
PullupTableUnambiguous ==
    /\ \A i, j \in 1..Len(PullupRULESET) :
         (/\ PullupRULESET[i][1] = PullupRULESET[j][1]
          /\ PullupRULESET[i][2] = PullupRULESET[j][2]) => i = j
    /\ \A i \in 1..Len(PullupRULESET) : PullupRULESET[i][2] # ChoseongIeung

PushdownTableUnambiguous ==
    /\ Cardinality(Jongseong \ {JongseongIeung}) = 26
    /\ \A f \in Jongseong \ {JongseongIeung} :
         Cardinality({k \in 1..Len(PushdownRULESET) :
                         PushdownRULESET[k][1] = Some(f)}) = 1
    /\ \A k \in 1..Len(PushdownRULESET) :
         PushdownRULESET[k][1] \notin {Some(JongseongIeung), Empty}

\* C24: the rule tables are unambiguous.  No two rules of the pull-up table
\* share (trigger final, trigger initial) and none is triggered by the initial
\* Ieung; the push-down table has exactly one rule for each of the 26 finals
\* other than Ieung and none for Ieung or for no final; and for every pair
\* of adjacent syllables being scanned at most one rule's condition holds.
C24_Unambiguous ==
    /\ PullupTableUnambiguous
    /\ PushdownTableUnambiguous
    /\ ScansPair => Cardinality(MatchingRules) <= 1

\* Push-down is scanning the pair of "안아" and exactly one rule matches it.
C24_Witness ==
    /\ call = "pushdown" /\ ScansPair
    /\ source = <<50504, 50500>>
    /\ characters = 1
    /\ Cardinality(MatchingRules) = 1
\* Ordinary pull-up has returned on a text of exactly two syllables on which
\* an ordinary rule fires.
PulledUpPair ==
    /\ call = "pullup" /\ Done /\ ~extended
    /\ Len(source) = 2 /\ AdjacentPairs = {1}
    /\ FiringRules(1) # {}

\* The consonant pull-up moved is Tikeut or Thieuth and the vowel of the
\* second syllable is one of the guard's.
MovedGuarded ==
    /\ InitialOf(source[2]) \in {ChoseongTikeut, ChoseongThieuth}
    /\ MedialOf(source[2]) \in GuardedVowels

\* The final pull-up left on the first syllable is Tikeut or Thieuth itself
\* and the vowel of the second syllable is one of the guard's.
PulledFinalGuarded ==
    /\ FinalOf(output[1]) \in GuardedFinals
    /\ MedialOf(source[2]) \in GuardedVowels

\* A text that ordinary push-down of its ordinary pull-up does not return:
\* "안아", which pull-up leaves alone and push-down turns into "아나".
NotIdentity ==
    (call = "pullup" /\ Done /\ ~extended /\ source = <<50504, 50500>>) =>
        /\ output = source
        /\ PushedBack(FALSE) = <<50500, 45208>>

\* C25 as stated: the exception taken for every moved Tikeut or Thieuth.
C25_MovedConsonant ==
    /\ NotIdentity
    /\ PulledUpPair =>
         IF MovedGuarded THEN PushedBack(FALSE) = output
         ELSE PushedBack(FALSE) = source

\* C25: conditional inverse.  For every text of exactly two syllables on which
\* an ordinary pull-up rule fires, ordinary push-down of the ordinary pull-up
\* output returns the original text, except when the final pull-up left is
\* Tikeut or Thieuth itself (the first syllable had no final) and the second
\* syllable's vowel is Ya, Yae, Yeo, Ye, Yo, Yu or I: then the pulled-up text
\* is returned unchanged.  A Thieuth pulled up into the final RieulThieuth is
\* pushed back whatever the vowel.  Push-down after pull-up is not the
\* identity on every text.
C25_ConditionalInverse ==
    /\ NotIdentity
    /\ PulledUpPair =>
         IF PulledFinalGuarded THEN PushedBack(FALSE) = output
         ELSE PushedBack(FALSE) = source

\* Pull-up of "갈티" has returned "갍이", which push-down returns to "갈티":
\* the moved consonant is Thieuth and the vowel is I.
C25_Witness ==
    /\ PulledUpPair /\ MovedGuarded /\ ~PulledFinalGuarded
    /\ source = <<44040, 54000>>
    /\ FinalOf(output[1]) = Some(JongseongRieulThieuth)
    /\ PushedBack(FALSE) = source
\* The chars the transform of this call returns on its own output, in the
\* mode of this call; <<>> if it panics.
Reapplied ==
    LET r == IF call = "pullup" THEN pullup_choseong_config(output, extended)
             ELSE IF call = "pushdown"
                  THEN pushdown_jongseong_config(output, extended)
                  ELSE flip_chojongseong_horizontally(output)
    IN  IF IsOk(r) THEN Chars(Unwrap(r)) ELSE <<>>

\* C26: pull-up is idempotent for a fixed mode.  For every input s and mode
\* e, pull-up in mode e of what pull-up in mode e returned on s returns it
\* again.
C26_PullupIdempotent ==
    (call = "pullup" /\ Done) => Reapplied = output

\* Pull-up of "이불각" has returned "입욹악", two rules having fired, and
\* pull-up of "입욹악" is "입욹악".
C26_Witness ==
    /\ call = "pullup" /\ Done /\ ~extended
    /\ source = <<51060, 48520, 44033>>
    /\ output # source
    /\ Reapplied = output

\* C27: push-down is idempotent for a fixed mode.  For every input s and
\* mode e, push-down in mode e of what push-down in mode e returned on s
\* returns it again.
C27_PushdownIdempotent ==
    (call = "pushdown" /\ Done) => Reapplied = output

\* Push-down of "각안아" has returned "가가나", two rules having fired, and
\* push-down of "가가나" is "가가나".
C27_Witness ==
    /\ call = "pushdown" /\ Done /\ ~extended
    /\ source = <<44033, 50504, 50500>>
    /\ output = <<44032, 44032, 45208>>
    /\ Reapplied = output
\* C28: medial vowels are never changed.  In pull-up and push-down, in
\* either mode, and in the flip, every syllable emitted so far stands at the
\* position of an input syllable and has that syllable's medial vowel.
C28_MedialKept ==
    (call \in Transforms) =>
        \A i \in 1..Len(output) :
            /\ i <= Len(source)
            /\ Hangul(source[i]) <=> Hangul(output[i])
            /\ Hangul(source[i]) => MedialOf(output[i]) = MedialOf(source[i])

\* The flip of "불해각" has returned "국해발": the consonants of the first and
\* third syllables are exchanged and the vowels U, Ae, A stay where they were.
C28_Witness ==
    /\ call = "flip" /\ Done
    /\ source = <<48520, 54644, 44033>>
    /\ output = <<44397, 54644, 48156>>
    /\ MedialOf(output[1]) = JungseongU
    /\ MedialOf(output[3]) = JungseongA
\* C29: the flip is an involution.  For every input s, the flip of what the
\* flip returned on s is s.
C29_FlipInvolution ==
    (call = "flip" /\ Done) => Reapplied = source

\* The flip of "불 각" has returned "국 발", and the flip of "국 발" is "불 각".
C29_Witness ==
    /\ call = "flip" /\ Done
    /\ source = <<48520, 32, 44033>>
    /\ output # source
    /\ output = <<44397, 32, 48156>>
    /\ Reapplied = source
\* What the transform of this call returns, in its mode, on a text; <<>> if
\* it panics.
PassOutput(text) ==
    LET r == IF call = "pullup" THEN pullup_choseong_config(text, extended)
             ELSE pushdown_jongseong_config(text, extended)
    IN  IF IsOk(r) THEN Chars(Unwrap(r)) ELSE <<>>

\* The least of two numbers.
Min(a, b) == IF a <= b THEN a ELSE b

\* While the loop runs and after it: as many chars are emitted as consumed,
\* and the chars emitted for the first n input chars are what the transform
\* returns for them on the input cut after char n+1, the lookahead of char n.
OneLookahead ==
    pc \in {"pullup", "pushdown", "done"} =>
        /\ Len(output) = characters - 1
        /\ characters <= Len(source) + 1
        /\ output = SubSeq(PassOutput(SubSeq(source, 1,
                                             Min(characters, Len(source)))),
                           1, characters - 1)

\* A step of the loop consumes the next char, and only it, and appends one
\* char to the chars emitted before, which stay as they are; the return
\* consumes and emits nothing.
OneCharStep ==
    /\ source' = source
    /\ IF characters <= Len(source)
       THEN /\ characters' = characters + 1
            /\ Len(Chars(destination')) = Len(output) + 1
            /\ SubSeq(Chars(destination'), 1, Len(output)) = output
            /\ pc' = pc
       ELSE /\ characters' = characters
            /\ destination' = destination
            /\ pc' = "done"

\* C30: single pass with termination.  On every input, pull-up and push-down
\* consume the chars one by one in input order, emit one char for each as it
\* is consumed, having looked at no char beyond its successor (also when the
\* successor is not a syllable and the loop continues early), never touch a
\* char already emitted, and eventually return, every char consumed.
C30_SinglePass ==
    /\ []OneLookahead
    /\ [][OneCharStep]_vars
    /\ <>(Done /\ characters = Len(source) + 1 /\ Len(output) = Len(source))

\* Push-down of "각 안" has emitted "각" on the early-continue path, the
\* lookahead being ' ', and is about to consume ' '.
C30_Witness ==
    /\ call = "pushdown" /\ pc = "pushdown"
    /\ source = <<44033, 32, 50504>>
    /\ characters = 2
    /\ output = <<44033>>
    /\ ~Hangul(source[characters])
====
